---- MODULE Spec2Model ----
(***************************************************************************)
(* Recipe matching and shopping-suggestion engine (src/recipe_search.py).  *)
(*                                                                         *)
(* Representation                                                          *)
(*   - a Python str is a sequence of one-character strings, so that        *)
(*     lower() and strip() are computed and not assumed;                   *)
(*   - a Python dict is a function whose DOMAIN is its key set, so that    *)
(*     dict.get(key, default) is computed from the keys present;           *)
(*   - a Python list is a sequence; the user's ingredient collection is a  *)
(*     set, because the code only ever tests membership in it;             *)
(*   - a percentage is kept in tenths (500 stands for 50.0), which is the  *)
(*     precision round(x, 1) leaves.                                       *)
(***************************************************************************)
EXTENDS Integers, Sequences, FiniteSets, TLC

VARIABLES recipes, op, args, result, printed,
          write_db, read_db, subscribers, event_log, delivered, seen_db, uuids

vars == <<recipes, op, args, result, printed,
          write_db, read_db, subscribers, event_log, delivered, seen_db, uuids>>

\* the write database, the read database and the event bus; delivered[i] are
\* the callbacks publish invoked for event_log[i], and seen_db[i] is the write
\* database as it was when publish was called with it
cqrs_vars ==
  <<write_db, read_db, subscribers, event_log, delivered, seen_db, uuids>>

(* Bounds *)

MaxIngredients == 3
MaxRecipes == 3
LongLen == 2001
MaxEvents == 3
MaxSetups == 2
MaxFavoriteEvents == 5
MaxRaising == 1
MaxSearches == 11

(* Strings *)

UpperChars == <<"A","B","C","D","E","F","G","H","I","J","K","L","M",
                "N","O","P","Q","R","S","T","U","V","W","X","Y","Z">>
LowerChars == <<"a","b","c","d","e","f","g","h","i","j","k","l","m",
                "n","o","p","q","r","s","t","u","v","w","x","y","z">>
Whitespace == {" ", "\t", "\n"}

LowerChar(c) ==
  IF \E i \in DOMAIN UpperChars : UpperChars[i] = c
  THEN LowerChars[CHOOSE i \in DOMAIN UpperChars : UpperChars[i] = c]
  ELSE c

Lower(s) == [i \in DOMAIN s |-> LowerChar(s[i])]

RECURSIVE LStrip(_)
LStrip(s) == IF s # <<>> /\ Head(s) \in Whitespace THEN LStrip(Tail(s)) ELSE s

RECURSIVE RStrip(_)
RStrip(s) ==
  IF s # <<>> /\ s[Len(s)] \in Whitespace
  THEN RStrip(SubSeq(s, 1, Len(s) - 1)) ELSE s

Strip(s) == RStrip(LStrip(s))

Range(s) == {s[i] : i \in DOMAIN s}

(* Dictionaries *)

None == [py_none |-> TRUE]

Get(d, key, default) == IF key \in DOMAIN d THEN d[key] ELSE default

\* truth value of a filters argument: None and the empty dict are false
Truthy(filters) == filters # None /\ DOMAIN filters # {}

(* calculate_match *)

\* the percentage truncated to one decimal instead of rounded
Round1Down(match_count, total) == (1000 * match_count) \div total

\* round(match_count / total * 100, 1), in tenths: the nearest tenth of the
\* exact quotient, ties to even. Python rounds the float quotient, which gives
\* the same tenth for every total below 80 and for totals LongLen and
\* LongLen + 1 (the first difference is 23 of 80: 28.7 for the exact 28.75).
Round1(match_count, total) ==
  LET q == (1000 * match_count) \div total
      r == (1000 * match_count) % total
  IN  IF 2 * r > total \/ (2 * r = total /\ q % 2 = 1) THEN q + 1 ELSE q

\* the loop over lower_rec_ings[lo..hi], evaluated by halves so that the
\* evaluation depth stays logarithmic in the length of the list
RECURSIVE MatchLoop(_, _, _, _)
MatchLoop(lower_rec_ings, user_ingredients, lo, hi) ==
  IF lo > hi THEN [matched |-> <<>>, missing |-> <<>>]
  ELSE IF lo = hi
  THEN IF lower_rec_ings[lo] \in user_ingredients
       THEN [matched |-> <<lower_rec_ings[lo]>>, missing |-> <<>>]
       ELSE [matched |-> <<>>, missing |-> <<lower_rec_ings[lo]>>]
  ELSE LET mid == (lo + hi) \div 2
           L == MatchLoop(lower_rec_ings, user_ingredients, lo, mid)
           R == MatchLoop(lower_rec_ings, user_ingredients, mid + 1, hi)
       IN  [matched |-> L.matched \o R.matched,
            missing |-> L.missing \o R.missing]

\* calculate_match over the distinct lower-cased names: duplicates collapsed
calculate_match_dedup(recipe_ingredients, user_ingredients) ==
  LET lower_rec_ings == [i \in DOMAIN recipe_ingredients |->
                           Lower(recipe_ingredients[i])]
      firsts == SelectSeq([i \in DOMAIN lower_rec_ings |-> i],
                  LAMBDA i : \A j \in 1..(i - 1) :
                               lower_rec_ings[j] # lower_rec_ings[i])
      uniq == [k \in DOMAIN firsts |-> lower_rec_ings[firsts[k]]]
      loop == MatchLoop(uniq, user_ingredients, 1, Len(uniq))
      total == Len(uniq)
      match_count == Len(loop.matched)
  IN  [percentage |-> IF total > 0 THEN Round1(match_count, total) ELSE 0,
       matched |-> loop.matched,
       missing |-> loop.missing]

\* calculate_match with the percentage taken of the owned ingredients
calculate_match_of_owned(recipe_ingredients, user_ingredients) ==
  LET lower_rec_ings == [i \in DOMAIN recipe_ingredients |->
                           Lower(recipe_ingredients[i])]
      loop == MatchLoop(lower_rec_ings, user_ingredients, 1,
                        Len(lower_rec_ings))
      total == Cardinality(user_ingredients)
      match_count == Cardinality(Range(loop.matched))
  IN  [percentage |-> IF total > 0 THEN Round1(match_count, total) ELSE 0,
       matched |-> loop.matched,
       missing |-> loop.missing]

calculate_match(recipe_ingredients, user_ingredients) ==
  LET lower_rec_ings == [i \in DOMAIN recipe_ingredients |->
                           Lower(recipe_ingredients[i])]
      loop == MatchLoop(lower_rec_ings, user_ingredients, 1,
                        Len(lower_rec_ings))
      total == Len(lower_rec_ings)
      match_count == Len(loop.matched)
  IN  [percentage |-> IF total > 0 THEN Round1(match_count, total) ELSE 0,
       matched |-> loop.matched,
       missing |-> loop.missing]

(* passes_filters *)

LowerAll(tags) == [i \in DOMAIN tags |-> Lower(tags[i])]

\* each of the four blocks below is one "if option in filters and
\* filters[option]:" block of passes_filters: true when it returns False

TimeFails(recipe, filters) ==
  /\ "max_time" \in DOMAIN filters
  /\ filters.max_time # 0
  /\ Get(recipe, "total_time", 999) > filters.max_time

SkillFails(recipe, filters) ==
  /\ "skill_level" \in DOMAIN filters
  /\ filters.skill_level # <<>>
  /\ Lower(Get(recipe, "skill_level", <<>>)) # Lower(filters.skill_level)

\* the dietary_tags block with ANY semantics: fails only when no tag is there
TagsFailAny(recipe, filters) ==
  /\ "dietary_tags" \in DOMAIN filters
  /\ filters.dietary_tags # <<>>
  /\ LET recipe_tags == LowerAll(Get(recipe, "dietary_tags", <<>>))
         required_tags == LowerAll(filters.dietary_tags)
     IN  \A i \in DOMAIN required_tags :
           required_tags[i] \notin Range(recipe_tags)

TagsFail(recipe, filters) ==
  /\ "dietary_tags" \in DOMAIN filters
  /\ filters.dietary_tags # <<>>
  /\ LET recipe_tags == LowerAll(Get(recipe, "dietary_tags", <<>>))
         required_tags == LowerAll(filters.dietary_tags)
     IN  \E i \in DOMAIN required_tags :
           required_tags[i] \notin Range(recipe_tags)

CuisineFails(recipe, filters) ==
  /\ "cuisine" \in DOMAIN filters
  /\ filters.cuisine # <<>>
  /\ Lower(Get(recipe, "cuisine", <<>>)) # Lower(filters.cuisine)

\* the blocks chained with elif: only the first option given is evaluated
passes_filters_elif(recipe, filters) ==
  IF ~Truthy(filters) THEN TRUE
  ELSE IF "max_time" \in DOMAIN filters /\ filters.max_time # 0
  THEN ~TimeFails(recipe, filters)
  ELSE IF "skill_level" \in DOMAIN filters /\ filters.skill_level # <<>>
  THEN ~SkillFails(recipe, filters)
  ELSE IF "dietary_tags" \in DOMAIN filters /\ filters.dietary_tags # <<>>
  THEN ~TagsFail(recipe, filters)
  ELSE ~CuisineFails(recipe, filters)

passes_filters(recipe, filters) ==
  IF ~Truthy(filters) THEN TRUE
  ELSE IF TimeFails(recipe, filters) THEN FALSE
  ELSE IF SkillFails(recipe, filters) THEN FALSE
  ELSE IF TagsFail(recipe, filters) THEN FALSE
  ELSE IF CuisineFails(recipe, filters) THEN FALSE
  ELSE TRUE

(* Exceptions: recipe[key] on a dict without the key raises KeyError and the *)
(* call ends there. A call that raised has, in place of its list, the *)
(* one-entry list KeyError, which no call returns. *)

KeyError == <<[raised |-> "KeyError"]>>
\* an exception leaving a command handler, which returns a dict otherwise
Exception == [raised |-> "Exception"]

\* recipe[key] for one of the keys raises
Lacks(recipe, keys) == \E key \in keys : key \notin DOMAIN recipe

(* Sorting: list.sort(key=..., reverse=True) is stable, so among equal keys *)
(* the earlier element of the input stays the earlier element of the output *)

\* InsertAsc and SortAsc: the sort without reverse=True
InsertAsc(sorted, x, key) ==
  LET n == Cardinality({i \in DOMAIN sorted : sorted[i][key] <= x[key]})
  IN  SubSeq(sorted, 1, n) \o <<x>> \o SubSeq(sorted, n + 1, Len(sorted))

InsertDesc(sorted, x, key) ==
  LET n == Cardinality({i \in DOMAIN sorted : sorted[i][key] >= x[key]})
  IN  SubSeq(sorted, 1, n) \o <<x>> \o SubSeq(sorted, n + 1, Len(sorted))

RECURSIVE SortAsc(_, _)
SortAsc(s, key) ==
  IF s = <<>> THEN <<>>
  ELSE InsertAsc(SortAsc(SubSeq(s, 1, Len(s) - 1), key), s[Len(s)], key)

RECURSIVE SortDesc(_, _)
SortDesc(s, key) ==
  IF s = <<>> THEN <<>>
  ELSE InsertDesc(SortDesc(SubSeq(s, 1, Len(s) - 1), key), s[Len(s)], key)

(* search_recipes *)

unknown == <<"u","n","k","n","o","w","n">>

SearchEntry(recipe, match_data) ==
  [id |-> recipe.id,
   name |-> recipe.name,
   match_percentage |-> match_data.percentage,
   matched_ingredients |-> match_data.matched,
   missing_ingredients |-> match_data.missing,
   prep_time |-> Get(recipe, "prep_time", 0),
   cook_time |-> Get(recipe, "cook_time", 0),
   total_time |-> Get(recipe, "total_time", 0),
   servings |-> Get(recipe, "servings", 0),
   skill_level |-> Get(recipe, "skill_level", unknown),
   cuisine |-> Get(recipe, "cuisine", unknown),
   dietary_tags |-> Get(recipe, "dietary_tags", <<>>),
   equipment |-> Get(recipe, "equipment", <<>>)]

\* the loop without its passes_filters test
RECURSIVE SearchLoopNoFilter(_, _, _, _)
SearchLoopNoFilter(user_ingredients, recipe_list, filters, n) ==
  IF n = 0 THEN <<>>
  ELSE LET results == SearchLoopNoFilter(user_ingredients, recipe_list,
                                         filters, n - 1)
           recipe == recipe_list[n]
       IN  IF results = KeyError THEN KeyError
           ELSE IF Lacks(recipe, {"ingredients"}) THEN KeyError
           ELSE LET match_data == calculate_match(recipe.ingredients,
                                                  user_ingredients)
                IN  IF match_data.percentage > 0
                    THEN IF Lacks(recipe, {"id", "name"}) THEN KeyError
                         ELSE Append(results, SearchEntry(recipe, match_data))
                    ELSE results

\* the results list after the loop has visited the first n recipes
RECURSIVE SearchLoop(_, _, _, _)
SearchLoop(user_ingredients, recipe_list, filters, n) ==
  IF n = 0 THEN <<>>
  ELSE LET results == SearchLoop(user_ingredients, recipe_list, filters, n - 1)
           recipe == recipe_list[n]
       IN  IF results = KeyError THEN KeyError
           ELSE IF ~passes_filters(recipe, filters) THEN results
           ELSE IF Lacks(recipe, {"ingredients"}) THEN KeyError
           ELSE LET match_data == calculate_match(recipe.ingredients,
                                                  user_ingredients)
                IN  IF match_data.percentage > 0
                    THEN IF Lacks(recipe, {"id", "name"}) THEN KeyError
                         ELSE Append(results, SearchEntry(recipe, match_data))
                    ELSE results

search_recipes(user_ingredients, recipe_list, filters) ==
  LET results == SearchLoop(user_ingredients, recipe_list, filters,
                            Len(recipe_list))
  IN  IF results = KeyError THEN KeyError
      ELSE SortDesc(results, "match_percentage")

(* find_partial_matches *)

PartialEntry(recipe, match_data) ==
  [id |-> recipe.id,
   name |-> recipe.name,
   match_percentage |-> match_data.percentage,
   matched_ingredients |-> match_data.matched,
   missing_ingredients |-> match_data.missing,
   total_time |-> Get(recipe, "total_time", 0),
   skill_level |-> Get(recipe, "skill_level", unknown),
   cuisine |-> Get(recipe, "cuisine", unknown)]

\* the optional argument exclude_ids is <<>> when it is None and <<ids>> when
\* the caller passed the set ids; None is replaced by the empty set
ExcludeIds(exclude_ids) == IF exclude_ids = <<>> THEN {} ELSE exclude_ids[1]

\* the loop with perfect matches let through
RECURSIVE PartialLoopPerfect(_, _, _, _, _, _)
PartialLoopPerfect(user_ingredients, recipe_list, filters, min_match_threshold, exclude_ids, n) ==
  IF n = 0 THEN <<>>
  ELSE LET partial_matches == PartialLoopPerfect(user_ingredients, recipe_list,
                                filters, min_match_threshold, exclude_ids, n - 1)
           recipe == recipe_list[n]
       IN  IF partial_matches = KeyError THEN KeyError
           ELSE IF Lacks(recipe, {"id"}) THEN KeyError
           ELSE IF recipe.id \in exclude_ids THEN partial_matches
           ELSE IF ~passes_filters(recipe, filters) THEN partial_matches
           ELSE IF Lacks(recipe, {"ingredients"}) THEN KeyError
           ELSE LET match_data == calculate_match(recipe.ingredients,
                                                  user_ingredients)
                IN  IF 10 * min_match_threshold <= match_data.percentage
                    THEN IF Lacks(recipe, {"name"}) THEN KeyError
                         ELSE Append(partial_matches,
                                     PartialEntry(recipe, match_data))
                    ELSE partial_matches

\* min_match_threshold is in percent, percentages are in tenths of a percent
RECURSIVE PartialLoop(_, _, _, _, _, _)
PartialLoop(user_ingredients, recipe_list, filters, min_match_threshold, exclude_ids, n) ==
  IF n = 0 THEN <<>>
  ELSE LET partial_matches == PartialLoop(user_ingredients, recipe_list, filters,
                                min_match_threshold, exclude_ids, n - 1)
           recipe == recipe_list[n]
       IN  IF partial_matches = KeyError THEN KeyError
           ELSE IF Lacks(recipe, {"id"}) THEN KeyError
           ELSE IF recipe.id \in exclude_ids THEN partial_matches
           ELSE IF ~passes_filters(recipe, filters) THEN partial_matches
           ELSE IF Lacks(recipe, {"ingredients"}) THEN KeyError
           ELSE LET match_data == calculate_match(recipe.ingredients,
                                                  user_ingredients)
                IN  IF /\ 10 * min_match_threshold <= match_data.percentage
                       /\ match_data.percentage < 1000
                    THEN IF Lacks(recipe, {"name"}) THEN KeyError
                         ELSE Append(partial_matches,
                                     PartialEntry(recipe, match_data))
                    ELSE partial_matches

find_partial_matches(user_ingredients, recipe_list, filters, min_match_threshold, exclude_ids) ==
  LET partial_matches == PartialLoop(user_ingredients, recipe_list, filters,
                                     min_match_threshold,
                                     ExcludeIds(exclude_ids), Len(recipe_list))
  IN  IF partial_matches = KeyError THEN KeyError
      ELSE SortDesc(partial_matches, "match_percentage")

(* generate_shopping_suggestions *)

\* Strategy 2 with perfect matches skipped
RECURSIVE AllLoopPartial(_, _, _, _, _)
AllLoopPartial(user_ingredients, recipe_list, filters, exclude_ids, n) ==
  IF n = 0 THEN <<>>
  ELSE LET partial_matches == AllLoopPartial(user_ingredients, recipe_list,
                                             filters, exclude_ids, n - 1)
           recipe == recipe_list[n]
       IN  IF partial_matches = KeyError THEN KeyError
           ELSE IF Lacks(recipe, {"id"}) THEN KeyError
           ELSE IF recipe.id \in exclude_ids THEN partial_matches
           ELSE IF ~passes_filters(recipe, filters) THEN partial_matches
           ELSE IF Lacks(recipe, {"ingredients", "name"}) THEN KeyError
           ELSE LET match_data == calculate_match(recipe.ingredients,
                                                  user_ingredients)
                IN  IF match_data.percentage < 1000
                    THEN Append(partial_matches,
                                PartialEntry(recipe, match_data))
                    ELSE partial_matches

\* Strategy 2: the loop over all recipes, in catalog order and unsorted
RECURSIVE AllLoop(_, _, _, _, _)
AllLoop(user_ingredients, recipe_list, filters, exclude_ids, n) ==
  IF n = 0 THEN <<>>
  ELSE LET partial_matches == AllLoop(user_ingredients, recipe_list, filters,
                                      exclude_ids, n - 1)
           recipe == recipe_list[n]
       IN  IF partial_matches = KeyError THEN KeyError
           ELSE IF Lacks(recipe, {"id"}) THEN KeyError
           ELSE IF recipe.id \in exclude_ids THEN partial_matches
           ELSE IF ~passes_filters(recipe, filters) THEN partial_matches
           ELSE IF Lacks(recipe, {"ingredients", "name"}) THEN KeyError
           ELSE Append(partial_matches,
                       PartialEntry(recipe,
                                    calculate_match(recipe.ingredients,
                                                    user_ingredients)))

\* Strategy 1 without the second call at threshold 25
CandidatesNoFallback(user_ingredients, recipe_list, filters, has_matches, exclude_ids) ==
  IF has_matches
  THEN find_partial_matches(user_ingredients, recipe_list, filters, 50,
                            <<exclude_ids>>)
  ELSE AllLoop(user_ingredients, recipe_list, filters, exclude_ids,
               Len(recipe_list))

\* partial_matches as the counting loop finds it; exclude_ids is a set here.
\* A first call that raised is not an empty list: the exception leaves the
\* function and no second call is made.
Candidates(user_ingredients, recipe_list, filters, has_matches, exclude_ids) ==
  IF has_matches
  THEN LET partial_matches ==
             find_partial_matches(user_ingredients, recipe_list, filters, 50,
                                  <<exclude_ids>>)
       IN  IF partial_matches # <<>> THEN partial_matches
           ELSE find_partial_matches(user_ingredients, recipe_list, filters,
                                     25, <<exclude_ids>>)
  ELSE AllLoop(user_ingredients, recipe_list, filters, exclude_ids,
               Len(recipe_list))

\* ingredient_impact is a dict keyed by ingredient name: its values, in the
\* order in which the keys were inserted
CountMissing(ingredient_impact, missing_ing, recipe_name) ==
  LET known == {k \in DOMAIN ingredient_impact :
                  ingredient_impact[k].name = missing_ing}
  IN  IF known = {}
      THEN Append(ingredient_impact,
                  [name |-> missing_ing, unlock_count |-> 1,
                   recipe_names |-> <<recipe_name>>])
      ELSE LET k == CHOOSE k \in known : TRUE
           IN  [ingredient_impact EXCEPT
                  ![k].unlock_count = @ + 1,
                  ![k].recipe_names = Append(@, recipe_name)]

\* the inner loop run over the candidate's ingredients, owned ones first
RECURSIVE OwnedFirstLoop(_, _, _)
OwnedFirstLoop(ingredient_impact, recipe, j) ==
  IF j = 0 THEN ingredient_impact
  ELSE CountMissing(OwnedFirstLoop(ingredient_impact, recipe, j - 1),
                    (recipe.matched_ingredients
                       \o recipe.missing_ingredients)[j],
                    recipe.name)

\* the inner loop over the first j missing ingredients of one candidate
RECURSIVE MissingLoop(_, _, _)
MissingLoop(ingredient_impact, recipe, j) ==
  IF j = 0 THEN ingredient_impact
  ELSE CountMissing(MissingLoop(ingredient_impact, recipe, j - 1),
                    recipe.missing_ingredients[j], recipe.name)

\* the outer loop over the first n candidates
RECURSIVE ImpactLoop(_, _)
ImpactLoop(partial_matches, n) ==
  IF n = 0 THEN <<>>
  ELSE MissingLoop(ImpactLoop(partial_matches, n - 1), partial_matches[n],
                   Len(partial_matches[n].missing_ingredients))

\* the slice taken from the other end
SliceTail(s, n) ==
  SubSeq(s, (IF n < Len(s) THEN Len(s) - n ELSE 0) + 1, Len(s))

\* s[:n]; a negative n counts from the end
Slice(s, n) ==
  IF n >= 0 THEN SubSeq(s, 1, IF n < Len(s) THEN n ELSE Len(s))
  ELSE SubSeq(s, 1, IF Len(s) + n > 0 THEN Len(s) + n ELSE 0)

\* the lines the call prints, each line a tuple of its parts: Strategy 2
\* announces itself, also when the loop then raises
SuggestionOutput(has_matches) ==
  IF has_matches THEN <<>>
  ELSE <<<<"">>,
         <<"Analyzing ALL recipes to find the most useful ingredients...">>>>

generate_shopping_suggestions(user_ingredients, recipe_list, filters, top_n, has_matches, exclude_ids) ==
  LET partial_matches == Candidates(user_ingredients, recipe_list, filters,
                                    has_matches, ExcludeIds(exclude_ids))
  IN  IF partial_matches = KeyError THEN KeyError
      ELSE LET suggestions == ImpactLoop(partial_matches, Len(partial_matches))
           IN  Slice(SortDesc(suggestions, "unlock_count"), top_n)

(* Input domains *)

egg == <<"e","g","g">>
EgG == <<"E","g","G">>
padded_egg == <<" ","e","g","g">>
oil == <<"o","i","l">>
mayo == <<"m","a","y","o">>
chicken == <<"c","h","i","c","k","e","n">>
rice == <<"r","i","c","e">>
soy_sauce == <<"s","o","y"," ","s","a","u","c","e">>
garlic == <<"g","a","r","l","i","c">>

beginner == <<"b","e","g","i","n","n","e","r">>
Beginner == <<"B","e","g","i","n","n","e","r">>
advanced == <<"a","d","v","a","n","c","e","d">>
asian == <<"a","s","i","a","n">>
Asian == <<"A","s","i","a","n">>
italian == <<"i","t","a","l","i","a","n">>
vegan == <<"v","e","g","a","n">>
Vegan == <<"V","e","g","a","n">>
vegetarian == <<"v","e","g","e","t","a","r","i","a","n">>

\* all sequences over S of length at most n
RECURSIVE SeqsUpTo(_, _)
SeqsUpTo(S, n) ==
  IF n = 0 THEN {<<>>}
  ELSE LET shorter == SeqsUpTo(S, n - 1)
       IN  shorter \cup {Append(q, x) : q \in shorter, x \in S}

IngredientNames == {egg, EgG, padded_egg, oil}

ScenarioIngredients == <<chicken, rice, soy_sauce, garlic>>

\* one owned ingredient in a list of LongLen
LongIngredients == [i \in 1..LongLen |-> IF i = 1 THEN egg ELSE mayo]

IngredientLists ==
  SeqsUpTo(IngredientNames, MaxIngredients)
    \cup {ScenarioIngredients, LongIngredients}

\* the last two are not lower-case or not trimmed: the caller did not normalise
\* ingredient lists as a query receives them
UserLists ==
  {<<>>, <<egg>>, <<oil>>, <<egg, oil>>, <<oil, egg>>, <<chicken, rice>>,
   <<EgG>>, <<padded_egg, oil>>}

UserSets == SUBSET {egg, oil} \cup {{chicken, rice}, {EgG}, {padded_egg, oil}}

\* a dict key that is absent (the empty dict) or present with one of values
OptField(key, values) == {<<>>} \cup {key :> v : v \in values}

\* recipes as the catalog source may give them: optional fields may be absent
FilterRecipes ==
  {[id |-> 1, name |-> "Test Recipe", ingredients |-> <<egg, oil>>]
     @@ t @@ s @@ c @@ d :
     t \in OptField("total_time", {10, 45}),
     s \in OptField("skill_level", {beginner, advanced}),
     c \in OptField("cuisine", {Asian}),
     d \in OptField("dietary_tags", {<<>>, <<vegan>>, <<Vegan, vegetarian>>})}

\* filters as main builds them or as a caller passes them: None, or a dict
\* in which an option is absent, present and empty, or present with a value
AllFilters ==
  {None} \cup
  {t @@ s @@ c @@ d :
     t \in OptField("max_time", {0, 30, 998, 999}),
     s \in OptField("skill_level", {<<>>, Beginner, advanced}),
     c \in OptField("cuisine", {<<>>, asian, italian}),
     d \in OptField("dietary_tags", {<<>>, <<vegan>>, <<vegetarian, Vegan>>})}

RecipePool ==
  {[id |-> 1, name |-> "Omelette", ingredients |-> <<EgG, oil>>,
    total_time |-> 10, skill_level |-> beginner, cuisine |-> Asian,
    dietary_tags |-> <<vegetarian>>],
   [id |-> 2, name |-> "Fried Rice",
    ingredients |-> <<egg, rice, oil, soy_sauce>>,
    total_time |-> 45, skill_level |-> advanced, cuisine |-> Asian,
    dietary_tags |-> <<vegan>>],
   [id |-> 3, name |-> "Egg Salad", ingredients |-> <<egg, egg, mayo>>,
    total_time |-> 10, skill_level |-> beginner],
   [id |-> 4, name |-> "Garlic Chicken", ingredients |-> ScenarioIngredients,
    cuisine |-> Asian],
   [id |-> 5, name |-> "Egg Drop", ingredients |-> <<padded_egg, oil>>,
    total_time |-> 45, skill_level |-> Beginner, cuisine |-> italian,
    dietary_tags |-> <<Vegan, vegetarian>>]}

\* catalogs: at most MaxRecipes recipes of the pool, each at most once
Catalogs ==
  {c \in SeqsUpTo(RecipePool, MaxRecipes) :
     \A i, j \in DOMAIN c : i # j => c[i] # c[j]}

SearchFilters ==
  {None, <<>>, [max_time |-> 30], [max_time |-> 0],
   [skill_level |-> Beginner], [dietary_tags |-> <<vegan>>],
   [max_time |-> 30, cuisine |-> asian]}

\* the thresholds the callers pass: the default, the fallback, the display
Thresholds == {50, 25, 10}

\* the ids found in a catalog
CatalogIds(recipe_list) ==
  {recipe_list[i].id :
     i \in {j \in DOMAIN recipe_list : ~Lacks(recipe_list[j], {"id"})}}

\* three recipes that, for a user owning chicken and rice, miss egg, egg and
\* oil, and oil
ScenarioCatalog ==
  <<[id |-> 6, name |-> "Egg Rice", ingredients |-> <<egg, rice>>],
    [id |-> 7, name |-> "Stir Fry",
     ingredients |-> <<egg, oil, chicken, rice>>],
    [id |-> 8, name |-> "Fried Chicken", ingredients |-> <<oil, chicken>>]>>

SuggestCatalogs == Catalogs \cup {ScenarioCatalog}

\* one catalog entry with any subset of its fields absent
MalformedEntries ==
  {a @@ b @@ c @@ d @@ e @@ f @@ g :
     a \in OptField("id", {9}),
     b \in OptField("name", {"Omelette"}),
     c \in OptField("ingredients", {<<egg, oil>>}),
     d \in OptField("total_time", {10}),
     e \in OptField("skill_level", {beginner}),
     f \in OptField("cuisine", {asian}),
     g \in OptField("dietary_tags", {<<vegan>>})}

\* catalogs made of such an entry alone, or after a complete entry
MalformedCatalogs ==
  {<<entry>> : entry \in MalformedEntries}
    \cup {<<ScenarioCatalog[1], entry>> :
            entry \in {x \in MalformedEntries : Cardinality(DOMAIN x) >= 6}}

SuggestFilters ==
  {None, [max_time |-> 30], [skill_level |-> Beginner],
   [dietary_tags |-> <<vegan>>]}

\* top_n: nothing, fewer than the ingredients missing, the default
TopNs == {0, 1, 2, 5}

\* exclude_ids: None, the empty set, one recipe already shown
ExcludeChoices(recipe_list) ==
  {<<>>, <<{}>>} \cup {<<{id}>> : id \in CatalogIds(recipe_list)}

(* Dietary Compatibility Checker and Substitution Advisor. Their modules *)
(* (queries/dietary_restrictions.py, services/substitutions.py) are not among *)
(* the sources; the two functions follow sections 4.3 and 4.6 of the *)
(* specification, the table rows follow the tests. *)

cheese == <<"c","h","e","e","s","e">>
cheddar_cheese == <<"c","h","e","d","d","a","r"," ","c","h","e","e","s","e">>
eggs == <<"e","g","g","s">>
milk == <<"m","i","l","k">>
MILK == <<"M","I","L","K">>
Milk == <<"M","i","l","k">>
butter == <<"b","u","t","t","e","r">>
pasta == <<"p","a","s","t","a">>
bread == <<"b","r","e","a","d">>
tofu == <<"t","o","f","u">>
CHICKEN == <<"C","H","I","C","K","E","N">>
peanut == <<"p","e","a","n","u","t">>
peanut_butter == <<"p","e","a","n","u","t"," ","b","u","t","t","e","r">>
unicorn_tears == <<"u","n","i","c","o","r","n","_","t","e","a","r","s">>
gluten_free == <<"g","l","u","t","e","n","-","f","r","e","e">>
dairy_free == <<"d","a","i","r","y","-","f","r","e","e">>
nut_free == <<"n","u","t","-","f","r","e","e">>
keto == <<"k","e","t","o">>
oat_milk == <<"o","a","t"," ","m","i","l","k">>
soy_milk == <<"s","o","y"," ","m","i","l","k">>
almond_milk == <<"a","l","m","o","n","d"," ","m","i","l","k">>
flax_egg == <<"f","l","a","x"," ","e","g","g">>

\* DIETARY_RESTRICTIONS: restriction name -> forbidden_ingredients, lower case
DIETARY_RESTRICTIONS ==
  (vegetarian :> <<chicken>>)
    @@ (vegan :> <<chicken, eggs, milk, cheese, butter>>)
    @@ (gluten_free :> <<pasta, bread>>)
    @@ (dairy_free :> <<milk, cheese, butter>>)
    @@ (nut_free :> <<peanut>>)

\* term in text, both of them strings
IsSubstring(term, text) ==
  \E i \in 0..(Len(text) - Len(term)) : SubSeq(text, i + 1, i + Len(term)) = term

\* the same with a forbidden term found only when it is the whole ingredient
FirstForbiddenExact(forbidden_ingredients, ingredient) ==
  LET found == {t \in DOMAIN forbidden_ingredients :
                  forbidden_ingredients[t] = ingredient}
  IN  IF found = {} THEN <<>>
      ELSE <<forbidden_ingredients[CHOOSE t \in found :
                                     \A u \in found : t <= u]>>

\* the first forbidden term found in the ingredient, or none
FirstForbidden(forbidden_ingredients, ingredient) ==
  LET found == {t \in DOMAIN forbidden_ingredients :
                  IsSubstring(forbidden_ingredients[t], ingredient)}
  IN  IF found = {} THEN <<>>
      ELSE <<forbidden_ingredients[CHOOSE t \in found :
                                     \A u \in found : t <= u]>>

\* the violations of one ingredient against the first n requested restrictions
RECURSIVE RestrictionLoop(_, _, _)
RestrictionLoop(ingredient, restriction_names, n) ==
  IF n = 0 THEN <<>>
  ELSE LET violations == RestrictionLoop(ingredient, restriction_names, n - 1)
           restriction == restriction_names[n]
       IN  IF restriction \notin DOMAIN DIETARY_RESTRICTIONS THEN violations
           ELSE LET term == FirstForbidden(DIETARY_RESTRICTIONS[restriction],
                                           Lower(ingredient))
                IN  IF term = <<>> THEN violations
                    ELSE Append(violations,
                                [ingredient |-> Lower(ingredient),
                                 restriction |-> restriction,
                                 matched_forbidden_term |-> term[1]])

\* the violations of the first n recipe ingredients
RECURSIVE ViolationLoop(_, _, _)
ViolationLoop(recipe_ingredients, restriction_names, n) ==
  IF n = 0 THEN <<>>
  ELSE ViolationLoop(recipe_ingredients, restriction_names, n - 1)
         \o RestrictionLoop(recipe_ingredients[n], restriction_names,
                            Len(restriction_names))

check_recipe_compatibility(recipe_ingredients, restriction_names) ==
  LET violations == ViolationLoop(recipe_ingredients, restriction_names,
                                  Len(recipe_ingredients))
  IN  [is_compatible |-> (violations = <<>>), violations |-> violations]

\* SUBSTITUTIONS: base ingredient, lower case -> its substitutes. Almond milk
\* is returned neither for nut-free nor for vegan with nut-free.
SUBSTITUTIONS ==
  (milk :> <<[name |-> oat_milk, best_for |-> {vegan, dairy_free, nut_free}],
             [name |-> soy_milk, best_for |-> {vegan, dairy_free, nut_free}],
             [name |-> almond_milk, best_for |-> {dairy_free}]>>)
    @@ (egg :> <<[name |-> flax_egg, best_for |-> {vegan}]>>)
    @@ (chicken :> <<[name |-> tofu, best_for |-> {vegetarian, vegan}]>>)

\* the lookup with the name taken as written
get_substitutions_as_written(name, active_restrictions) ==
  IF name \notin DOMAIN SUBSTITUTIONS THEN <<>>
  ELSE LET fits(substitute) ==
             substitute.best_for \cap Range(active_restrictions) # {}
       IN  SelectSeq(SUBSTITUTIONS[name], fits)

get_substitutions_for_ingredient(name, active_restrictions) ==
  IF Lower(name) \notin DOMAIN SUBSTITUTIONS THEN <<>>
  ELSE LET fits(substitute) ==
             substitute.best_for \cap Range(active_restrictions) # {}
       IN  SelectSeq(SUBSTITUTIONS[Lower(name)], fits)

\* recipes given to the checker: up to two ingredients
CheckedIngredients ==
  SeqsUpTo({chicken, CHICKEN, cheddar_cheese, rice, tofu, peanut_butter, eggs}, 2)

\* requested restrictions: none, one, two, and a name not in the table
RequestedRestrictions ==
  SeqsUpTo({vegetarian, vegan, gluten_free, nut_free, keto}, 2)

SubstitutedNames == {milk, MILK, Milk, egg, EgG, chicken, unicorn_tears}

ActiveRestrictions == SeqsUpTo({vegan, nut_free, vegetarian, dairy_free}, 2)

(* CQRS: the write database of the command handlers, the event bus and the *)
(* event consumers that keep the read database. An optional argument is <<>> *)
(* for None and <<v>> for the value v; a str that the code only compares or *)
(* tests for emptiness is a TLA+ string; a recipe id is [str |-> s] or *)
(* [int |-> n], so that str() is computed; a message is a tuple of its *)
(* parts. *)

\* dict[k] = v, del dict[k], dict.update(other)
Put(d, k, v) == [j \in DOMAIN d \cup {k} |-> IF j = k THEN v ELSE d[j]]

Del(d, k) == [j \in DOMAIN d \ {k} |-> d[j]]

Update(d, other) ==
  [j \in DOMAIN d \cup DOMAIN other |-> IF j \in DOMAIN other THEN other[j] ELSE d[j]]

\* x or []
OrEmpty(optional) == IF optional = <<>> THEN <<>> ELSE optional[1]

\* str(uuid.uuid4()): the n-th identifier drawn; Uuid(0) is never drawn
Uuid(n) == <<"uuid", n>>

\* str(recipe_id)
Str(recipe_id) ==
  IF "str" \in DOMAIN recipe_id THEN recipe_id
  ELSE [str |-> <<"0", "1", "2", "3", "4", "5", "6", "7", "8", "9">>[recipe_id.int + 1]]

\* DomainEvent.to_dict(); the timestamp is the position in publish order
Event(event_type, data) ==
  [event_type |-> event_type, data |-> data, timestamp |-> Len(event_log) + 1]

on_user_created(rdb, event_data) ==
  LET user_id == event_data.data.user_id
  IN  [rdb EXCEPT
         !.user_profiles =
            Put(@, user_id,
                [user_id |-> user_id,
                 username |-> event_data.data.username,
                 dietary_restrictions |-> event_data.data.dietary_restrictions,
                 skill_level |-> beginner]),
         !.user_pantries = Put(@, user_id, <<>>),
         !.user_favorites = Put(@, user_id, {})]

on_user_profile_updated(rdb, event_data) ==
  LET user_id == event_data.data.user_id
  IN  IF user_id \in DOMAIN rdb.user_profiles
      THEN [rdb EXCEPT !.user_profiles[user_id] =
                         Update(@, event_data.data.updated_fields)]
      ELSE rdb

\* the consumer storing the name as it was typed
on_ingredient_added_as_typed(rdb, event_data) ==
  LET user_id == event_data.data.user_id
      ingredient_id == event_data.data.ingredient_id
      pantries == IF user_id \in DOMAIN rdb.user_pantries
                  THEN rdb.user_pantries
                  ELSE Put(rdb.user_pantries, user_id, <<>>)
  IN  [rdb EXCEPT !.user_pantries =
         Put(pantries, user_id,
             Put(pantries[user_id], ingredient_id,
                 [ingredient_id |-> ingredient_id,
                  name |-> event_data.data.ingredient_name,
                  amount |-> event_data.data.amount,
                  exp_date |-> Get(event_data.data, "exp_date", <<>>)]))]

on_ingredient_added(rdb, event_data) ==
  LET user_id == event_data.data.user_id
      ingredient_id == event_data.data.ingredient_id
      pantries == IF user_id \in DOMAIN rdb.user_pantries
                  THEN rdb.user_pantries
                  ELSE Put(rdb.user_pantries, user_id, <<>>)
  IN  [rdb EXCEPT !.user_pantries =
         Put(pantries, user_id,
             Put(pantries[user_id], ingredient_id,
                 [ingredient_id |-> ingredient_id,
                  name |-> Lower(event_data.data.ingredient_name),
                  amount |-> event_data.data.amount,
                  exp_date |-> Get(event_data.data, "exp_date", <<>>)]))]

on_ingredient_removed(rdb, event_data) ==
  LET user_id == event_data.data.user_id
      ingredient_id == event_data.data.ingredient_id
  IN  IF /\ user_id \in DOMAIN rdb.user_pantries
         /\ ingredient_id \in DOMAIN rdb.user_pantries[user_id]
      THEN [rdb EXCEPT !.user_pantries[user_id] = Del(@, ingredient_id)]
      ELSE rdb

on_recipe_favorited(rdb, event_data) ==
  LET user_id == event_data.data.user_id
      recipe_id == event_data.data.recipe_id
      favorites == IF user_id \in DOMAIN rdb.user_favorites
                   THEN rdb.user_favorites
                   ELSE Put(rdb.user_favorites, user_id, {})
  IN  [rdb EXCEPT !.user_favorites =
         Put(favorites, user_id, favorites[user_id] \cup {Str(recipe_id)})]

on_recipe_unfavorited(rdb, event_data) ==
  LET user_id == event_data.data.user_id
      recipe_id == event_data.data.recipe_id
  IN  IF user_id \in DOMAIN rdb.user_favorites
      THEN [rdb EXCEPT !.user_favorites[user_id] = @ \ {Str(recipe_id)}]
      ELSE rdb

\* the consumer dropping the newest entry, pop() for pop(0)
on_recipe_search_pop_last(rdb, event_data) ==
  LET user_id == event_data.data.user_id
      analytics == IF user_id \in DOMAIN rdb.user_analytics
                   THEN rdb.user_analytics
                   ELSE Put(rdb.user_analytics, user_id,
                            [search_count |-> 0, recent_searches |-> <<>>])
      searches == Append(analytics[user_id].recent_searches,
                         [timestamp |-> event_data.timestamp,
                          ingredients |-> event_data.data.ingredients,
                          result_count |-> event_data.data.result_count])
  IN  [rdb EXCEPT !.user_analytics =
         Put(analytics, user_id,
             [search_count |-> analytics[user_id].search_count + 1,
              recent_searches |-> IF Len(searches) > 10
                                  THEN SubSeq(searches, 1, Len(searches) - 1)
                                  ELSE searches])]

\* recent_searches keeps the last 10 entries
on_recipe_search_performed(rdb, event_data) ==
  LET user_id == event_data.data.user_id
      analytics == IF user_id \in DOMAIN rdb.user_analytics
                   THEN rdb.user_analytics
                   ELSE Put(rdb.user_analytics, user_id,
                            [search_count |-> 0, recent_searches |-> <<>>])
      searches == Append(analytics[user_id].recent_searches,
                         [timestamp |-> event_data.timestamp,
                          ingredients |-> event_data.data.ingredients,
                          result_count |-> event_data.data.result_count])
  IN  [rdb EXCEPT !.user_analytics =
         Put(analytics, user_id,
             [search_count |-> analytics[user_id].search_count + 1,
              recent_searches |-> IF Len(searches) > 10 THEN Tail(searches)
                                  ELSE searches])]

\* callback(event_dict), the callbacks being named by their function
Callback(callback, rdb, event_data) ==
  CASE callback = "on_user_created" -> on_user_created(rdb, event_data)
    [] callback = "on_user_profile_updated" ->
         on_user_profile_updated(rdb, event_data)
    [] callback = "on_ingredient_added" -> on_ingredient_added(rdb, event_data)
    [] callback = "on_ingredient_removed" ->
         on_ingredient_removed(rdb, event_data)
    [] callback = "on_recipe_favorited" -> on_recipe_favorited(rdb, event_data)
    [] callback = "on_recipe_unfavorited" ->
         on_recipe_unfavorited(rdb, event_data)
    [] callback = "on_recipe_search_performed" ->
         on_recipe_search_performed(rdb, event_data)
    [] callback = "raising_callback" -> rdb

\* what a callback prints when it is run on the read database rdb
CallbackOutput(callback, rdb, event_data) ==
  LET data == event_data.data
  IN  CASE callback = "on_user_created" ->
             <<<<"Read model updated: User ", data.username, " profile created">>>>
        [] callback = "on_user_profile_updated" ->
             IF data.user_id \in DOMAIN rdb.user_profiles
             THEN <<<<"Read model updated: User ", data.user_id, " profile updated">>>>
             ELSE <<>>
        [] callback = "on_ingredient_added" ->
             <<<<"Read model updated: Ingredient ", data.ingredient_name,
                 " added to pantry">>>>
        [] callback = "on_ingredient_removed" ->
             IF /\ data.user_id \in DOMAIN rdb.user_pantries
                /\ data.ingredient_id \in DOMAIN rdb.user_pantries[data.user_id]
             THEN <<<<"Read model updated: Ingredient removed from pantry">>>>
             ELSE <<>>
        [] callback = "on_recipe_favorited" ->
             <<<<"Read model updated: Recipe ", data.recipe_name, " favorited">>>>
        [] callback = "on_recipe_unfavorited" ->
             IF data.user_id \in DOMAIN rdb.user_favorites
             THEN <<<<"Read model updated: Recipe unfavorited">>>>
             ELSE <<>>
        [] callback = "on_recipe_search_performed" ->
             <<<<"Analytics updated: Recipe search logged">>>>
        [] callback = "raising_callback" -> <<>>

\* the callback ends by raising an exception
Raises(callback, rdb, event_data) == callback = "raising_callback"

\* the callback called with nothing around it to catch what it raises
CallbackUncaught(callback, rdb, event_data) ==
  [rdb |-> Callback(callback, rdb, event_data),
   printed |-> CallbackOutput(callback, rdb, event_data),
   raised |-> Raises(callback, rdb, event_data)]

\* try: callback(event_dict) except Exception: print(...); raised tells
\* whether an exception leaves the statement
TryCallback(callback, rdb, event_data) ==
  [rdb |-> Callback(callback, rdb, event_data),
   printed |-> CallbackOutput(callback, rdb, event_data)
                 \o IF Raises(callback, rdb, event_data)
                    THEN <<<<"Error in subscriber for ", event_data.event_type>>>>
                    ELSE <<>>,
   raised |-> FALSE]

\* publish's loop over the first n callbacks: the read database after it, what
\* was printed, the callbacks invoked, and whether an exception ended the loop
RECURSIVE RunCallbacks(_, _, _, _)
RunCallbacks(rdb, callbacks, event_data, n) ==
  IF n = 0
  THEN [rdb |-> rdb, printed |-> <<>>, invoked |-> <<>>, raised |-> FALSE]
  ELSE LET before == RunCallbacks(rdb, callbacks, event_data, n - 1)
           tried == TryCallback(callbacks[n], before.rdb, event_data)
       IN  IF before.raised THEN before
           ELSE [rdb |-> tried.rdb,
                 printed |-> before.printed \o tried.printed,
                 invoked |-> Append(before.invoked, callbacks[n]),
                 raised |-> tried.raised]

\* self._subscribers[event_type] when the key is there
SubscribersOf(event_type) ==
  IF event_type \in DOMAIN subscribers THEN subscribers[event_type] ELSE <<>>

\* setup_event_consumers: the subscriptions in the order they are made
Subscriptions ==
  <<<<"USER_CREATED", "on_user_created">>,
    <<"USER_PROFILE_UPDATED", "on_user_profile_updated">>,
    <<"INGREDIENT_ADDED", "on_ingredient_added">>,
    <<"INGREDIENT_REMOVED", "on_ingredient_removed">>,
    <<"RECIPE_FAVORITED", "on_recipe_favorited">>,
    <<"RECIPE_UNFAVORITED", "on_recipe_unfavorited">>,
    <<"RECIPE_SEARCH_PERFORMED", "on_recipe_search_performed">>>>

\* EventBus.subscribe for the first n subscriptions
RECURSIVE Subscribe(_, _)
Subscribe(subs, n) ==
  IF n = 0 THEN subs
  ELSE LET before == Subscribe(subs, n - 1)
           event_type == Subscriptions[n][1]
       IN  Put(before, event_type,
               Append(Get(before, event_type, <<>>), Subscriptions[n][2]))

(* The query side's copy of the search: query_handlers.py *)

_calculate_match(recipe_ingredients, user_ingredients) ==
  LET lower_recipe == [i \in DOMAIN recipe_ingredients |->
                         Lower(recipe_ingredients[i])]
      matched == SelectSeq(lower_recipe,
                           LAMBDA ing : ing \in Range(user_ingredients))
      missing == SelectSeq(lower_recipe,
                           LAMBDA ing : ing \notin Range(user_ingredients))
      total == Len(lower_recipe)
  IN  [percentage |-> IF total > 0 THEN Round1(Len(matched), total) ELSE 0,
       matched |-> matched,
       missing |-> missing]

\* every option that is in filters is applied, whatever its value
_passes_filters(recipe, filters) ==
  IF /\ "max_time" \in DOMAIN filters
     /\ Get(recipe, "total_time", 999) > filters.max_time
  THEN FALSE
  ELSE IF /\ "skill_level" \in DOMAIN filters
          /\ Lower(Get(recipe, "skill_level", <<>>)) # Lower(filters.skill_level)
  THEN FALSE
  ELSE IF /\ "dietary_tags" \in DOMAIN filters
          /\ LET recipe_tags == LowerAll(Get(recipe, "dietary_tags", <<>>))
                 required == LowerAll(filters.dietary_tags)
             IN  \E i \in DOMAIN required : required[i] \notin Range(recipe_tags)
  THEN FALSE
  ELSE IF /\ "cuisine" \in DOMAIN filters
          /\ Lower(Get(recipe, "cuisine", <<>>)) # Lower(filters.cuisine)
  THEN FALSE
  ELSE TRUE

\* _read_db['recipe_cache'].values() after _load_base_recipes read recipe_list:
\* one entry per id, at the place of the first recipe with the id and holding
\* the last one
CacheValues(recipe_list) ==
  LET firsts == SelectSeq([i \in DOMAIN recipe_list |-> i],
                  LAMBDA i : \A j \in 1..(i - 1) :
                               recipe_list[j].id # recipe_list[i].id)
      last(i) == CHOOSE j \in DOMAIN recipe_list :
                   /\ recipe_list[j].id = recipe_list[i].id
                   /\ \A k \in DOMAIN recipe_list :
                        recipe_list[k].id = recipe_list[i].id => k <= j
  IN  [k \in DOMAIN firsts |-> recipe_list[last(firsts[k])]]

\* the results list after the loop has visited the first n cached recipes
RECURSIVE QueryLoop(_, _, _, _)
QueryLoop(user_ingredients, cached, filters, n) ==
  IF n = 0 THEN <<>>
  ELSE LET results == QueryLoop(user_ingredients, cached, filters, n - 1)
           recipe == cached[n]
       IN  IF results = KeyError THEN KeyError
           ELSE IF ~_passes_filters(recipe, filters) THEN results
           ELSE IF Lacks(recipe, {"ingredients"}) THEN KeyError
           ELSE LET match_data == _calculate_match(recipe.ingredients,
                                                   user_ingredients)
                IN  IF match_data.percentage > 0
                    THEN IF Lacks(recipe, {"id", "name"}) THEN KeyError
                         ELSE Append(results, SearchEntry(recipe, match_data))
                    ELSE results

query_recipes_by_ingredients(ingredient_names, cached, filters) ==
  LET filters_or_empty == IF Truthy(filters) THEN filters ELSE <<>>
      user_ingredients == [i \in DOMAIN ingredient_names |->
                             Strip(Lower(ingredient_names[i]))]
      results == QueryLoop(user_ingredients, cached, filters_or_empty,
                           Len(cached))
  IN  IF results = KeyError THEN KeyError
      ELSE SortDesc(results, "match_percentage")

(* State machine *)

Idle ==
  /\ op = "idle"
  /\ args = <<>>
  /\ result = <<>>
  /\ printed = <<>>

\* the modules as imported: empty databases, nothing subscribed or published
Stores ==
  /\ write_db = [users |-> <<>>, user_ingredients |-> <<>>,
                  favorites |-> <<>>, appliances |-> <<>>]
  /\ read_db = [user_profiles |-> <<>>, user_pantries |-> <<>>,
                 user_favorites |-> <<>>, recipe_cache |-> <<>>,
                 user_analytics |-> <<>>]
  /\ subscribers = <<>>
  /\ event_log = <<>>
  /\ delivered = <<>>
  /\ seen_db = <<>>
  /\ uuids = 0

\* the catalog as load_recipes returned it
Init ==
  /\ recipes \in Catalogs
  /\ Idle
  /\ Stores

\* a catalog file whose entries lack fields
InitMalformed ==
  /\ recipes \in MalformedCatalogs
  /\ Idle
  /\ Stores

InitSuggest ==
  /\ recipes \in SuggestCatalogs
  /\ Idle
  /\ Stores

\* no catalog loaded: the functions below take their inputs as arguments
InitPure ==
  /\ recipes = <<>>
  /\ Idle
  /\ Stores

CalculateMatch ==
  /\ op = "idle"
  /\ \E recipe_ingredients \in IngredientLists, user_ingredients \in UserSets :
       /\ op' = "calculate_match"
       /\ args' = [recipe_ingredients |-> recipe_ingredients,
                   user_ingredients |-> user_ingredients]
       /\ result' = calculate_match(recipe_ingredients, user_ingredients)
  /\ printed' = <<>>
  /\ UNCHANGED recipes
  /\ UNCHANGED cqrs_vars

PassesFilters ==
  /\ op = "idle"
  /\ \E recipe \in FilterRecipes, filters \in AllFilters :
       /\ op' = "passes_filters"
       /\ args' = [recipe |-> recipe, filters |-> filters]
       /\ result' = passes_filters(recipe, filters)
  /\ printed' = <<>>
  /\ UNCHANGED recipes
  /\ UNCHANGED cqrs_vars

\* the call with the catalog filtered in place: recipes the filters reject
\* are removed from the list the caller passed
SearchRecipesInPlace ==
  /\ op = "idle"
  /\ \E user_ingredients \in UserSets, filters \in SearchFilters :
       LET passes(recipe) == passes_filters(recipe, filters)
       IN  /\ op' = "search_recipes"
           /\ args' = [user_ingredients |-> user_ingredients,
                       filters |-> filters]
           /\ result' = search_recipes(user_ingredients, recipes, filters)
           /\ recipes' = SelectSeq(recipes, passes)
  /\ printed' = <<>>
  /\ UNCHANGED cqrs_vars

SearchRecipes ==
  /\ op = "idle"
  /\ \E user_ingredients \in UserSets, filters \in SearchFilters :
       /\ op' = "search_recipes"
       /\ args' = [user_ingredients |-> user_ingredients, filters |-> filters]
       /\ result' = search_recipes(user_ingredients, recipes, filters)
  /\ printed' = <<>>
  /\ UNCHANGED recipes
  /\ UNCHANGED cqrs_vars

FindPartialMatches ==
  /\ op = "idle"
  /\ \E user_ingredients \in UserSets, filters \in SearchFilters,
        min_match_threshold \in Thresholds,
        exclude_ids \in {<<>>} \cup {<<ids>> : ids \in SUBSET CatalogIds(recipes)} :
       /\ op' = "find_partial_matches"
       /\ args' = [user_ingredients |-> user_ingredients, filters |-> filters,
                   min_match_threshold |-> min_match_threshold,
                   exclude_ids |-> exclude_ids]
       /\ result' = find_partial_matches(user_ingredients, recipes, filters,
                                         min_match_threshold, exclude_ids)
  /\ printed' = <<>>
  /\ UNCHANGED recipes
  /\ UNCHANGED cqrs_vars

GenerateShoppingSuggestions ==
  /\ op = "idle"
  /\ \E user_ingredients \in UserSets, filters \in SuggestFilters,
        top_n \in TopNs, has_matches \in BOOLEAN,
        exclude_ids \in ExcludeChoices(recipes) :
       /\ op' = "generate_shopping_suggestions"
       /\ args' = [user_ingredients |-> user_ingredients, filters |-> filters,
                   top_n |-> top_n, has_matches |-> has_matches,
                   exclude_ids |-> exclude_ids]
       /\ result' = generate_shopping_suggestions(user_ingredients, recipes,
                                                  filters, top_n, has_matches,
                                                  exclude_ids)
       /\ printed' = SuggestionOutput(has_matches)
  /\ UNCHANGED recipes
  /\ UNCHANGED cqrs_vars

CheckRecipeCompatibility ==
  /\ op = "idle"
  /\ \E recipe_ingredients \in CheckedIngredients,
        restriction_names \in RequestedRestrictions :
       /\ op' = "check_recipe_compatibility"
       /\ args' = [recipe_ingredients |-> recipe_ingredients,
                   restriction_names |-> restriction_names]
       /\ result' = check_recipe_compatibility(recipe_ingredients,
                                               restriction_names)
  /\ printed' = <<>>
  /\ UNCHANGED recipes
  /\ UNCHANGED cqrs_vars

GetSubstitutionsForIngredient ==
  /\ op = "idle"
  /\ \E name \in SubstitutedNames, active_restrictions \in ActiveRestrictions :
       /\ op' = "get_substitutions_for_ingredient"
       /\ args' = [name |-> name, active_restrictions |-> active_restrictions]
       /\ result' = get_substitutions_for_ingredient(name, active_restrictions)
  /\ printed' = <<>>
  /\ UNCHANGED recipes
  /\ UNCHANGED cqrs_vars

(* Command handlers. A handler runs to its return in one step: publish calls *)
(* the subscribed callbacks before it returns. *)

\* the handler published event and only then changed the write database
CommitAfterPublish(name, arguments, wdb, event, drawn, returned) ==
  LET callbacks == SubscribersOf(event.event_type)
      run == RunCallbacks(read_db, callbacks, event, Len(callbacks))
  IN  /\ op' = name
      /\ args' = arguments
      /\ result' = IF run.raised THEN Exception ELSE returned
      /\ write_db' = wdb
      /\ seen_db' = Append(seen_db, write_db)
      /\ event_log' = Append(event_log, event)
      /\ delivered' = Append(delivered, run.invoked)
      /\ read_db' = run.rdb
      /\ printed' = <<<<"EVENT PUBLISHED: ", event.event_type>>>> \o run.printed
      /\ uuids' = uuids + drawn
      /\ UNCHANGED <<recipes, subscribers>>

\* the handler changed the write database to wdb, then published event; an
\* exception leaving publish leaves the handler too
Commit(name, arguments, wdb, event, drawn, returned) ==
  LET callbacks == SubscribersOf(event.event_type)
      run == RunCallbacks(read_db, callbacks, event, Len(callbacks))
  IN  /\ op' = name
      /\ args' = arguments
      /\ result' = IF run.raised THEN Exception ELSE returned
      /\ write_db' = wdb
      /\ seen_db' = Append(seen_db, wdb)
      /\ event_log' = Append(event_log, event)
      /\ delivered' = Append(delivered, run.invoked)
      /\ read_db' = run.rdb
      /\ printed' = <<<<"EVENT PUBLISHED: ", event.event_type>>>> \o run.printed
      /\ uuids' = uuids + drawn
      /\ UNCHANGED <<recipes, subscribers>>

\* the handler returned success False, the write database being wdb by then
Reject(name, arguments, wdb, message) ==
  /\ op' = name
  /\ args' = arguments
  /\ result' = [success |-> FALSE, message |-> message]
  /\ write_db' = wdb
  /\ printed' = <<>>
  /\ UNCHANGED <<recipes, read_db, subscribers, event_log, delivered,
                 seen_db, uuids>>

CreateUserArgs ==
  {[username |-> "ann", password |-> "pw", dietary_restrictions |-> <<>>],
   [username |-> "bob", password |-> "pw",
    dietary_restrictions |-> <<<<vegan>>>>],
   [username |-> "", password |-> "pw", dietary_restrictions |-> <<>>],
   [username |-> "ann", password |-> "", dietary_restrictions |-> <<>>]}

\* the users there are, and an id that belongs to nobody
UserIdArgs == DOMAIN write_db.users \cup {Uuid(0)}

ProfileUpdates ==
  {[skill_level |-> advanced],
   [dietary_restrictions |-> <<vegan>>, username |-> "eve"],
   [username |-> "eve"]}

AddIngredientArgs ==
  {[ingredient_name |-> EgG, amount |-> 1, exp_date |-> <<>>],
   [ingredient_name |-> oil, amount |-> 2, exp_date |-> <<"2026-12-31">>],
   [ingredient_name |-> <<>>, amount |-> 1, exp_date |-> <<>>]}

\* the ingredient ids there are, and an id that belongs to nothing
IngredientIdArgs ==
  UNION {DOMAIN write_db.user_ingredients[u] :
           u \in DOMAIN write_db.user_ingredients} \cup {Uuid(0)}

RecipeIdArgs == {[str |-> "1"], [int |-> 1]}

CreateUser(max_events) ==
  /\ Len(event_log) < max_events
  /\ \E a \in CreateUserArgs :
       LET name == "handle_create_user"
           user_id == Uuid(uuids + 1)
           restrictions == OrEmpty(a.dietary_restrictions)
       IN  IF a.username = "" \/ a.password = ""
           THEN Reject(name, a, write_db, <<"Username and password required">>)
           ELSE IF \E u \in DOMAIN write_db.users :
                     write_db.users[u].username = a.username
           THEN Reject(name, a, write_db, <<"Username already exists">>)
           ELSE Commit(name, a,
                       [write_db EXCEPT !.users =
                          Put(@, user_id,
                              [user_id |-> user_id,
                               username |-> a.username,
                               password |-> a.password,
                               dietary_restrictions |-> restrictions,
                               skill_level |-> beginner])],
                       Event("USER_CREATED",
                             [user_id |-> user_id, username |-> a.username,
                              dietary_restrictions |-> restrictions]),
                       1,
                       [success |-> TRUE, user_id |-> user_id,
                        message |-> <<"User ", a.username,
                                      " created successfully">>])

HandleCreateUser == CreateUser(MaxEvents)

\* the loop writing every field of updates, allowed or not
ProfileLoopAnyField(user, updates) ==
  [user |-> Update(user, updates),
   updated_fields |-> [field \in DOMAIN updates
                                   \cap {"dietary_restrictions", "skill_level"} |->
                         updates[field]]]

\* the loop over updates.items(): the user and updated_fields after it
ProfileLoop(user, updates) ==
  LET allowed_fields == {"dietary_restrictions", "skill_level"}
      updated_fields == [field \in DOMAIN updates \cap allowed_fields |->
                           updates[field]]
  IN  [user |-> Update(user, updated_fields),
       updated_fields |-> updated_fields]

HandleUpdateUserProfile ==
  /\ Len(event_log) < MaxEvents
  /\ \E user_id \in UserIdArgs, updates \in ProfileUpdates :
       LET name == "handle_update_user_profile"
           a == [user_id |-> user_id, updates |-> updates]
           after == ProfileLoop(write_db.users[user_id], updates)
           updated_fields == after.updated_fields
           wdb == [write_db EXCEPT !.users[user_id] = after.user]
       IN  IF user_id \notin DOMAIN write_db.users
           THEN Reject(name, a, write_db, <<"User not found">>)
           ELSE IF DOMAIN updated_fields = {}
           THEN Reject(name, a, wdb, <<"No valid fields to update">>)
           ELSE Commit(name, a, wdb,
                       Event("USER_PROFILE_UPDATED",
                             [user_id |-> user_id,
                              updated_fields |-> updated_fields]),
                       0,
                       [success |-> TRUE,
                        message |-> <<"Profile updated successfully">>])

HandleAddIngredient ==
  /\ Len(event_log) < MaxEvents
  /\ \E user_id \in UserIdArgs, i \in AddIngredientArgs :
       LET name == "handle_add_ingredient"
           a == [user_id |-> user_id, ingredient_name |-> i.ingredient_name,
                 amount |-> i.amount, exp_date |-> i.exp_date]
           ingredient_id == Uuid(uuids + 1)
           user_ingredients ==
             IF user_id \in DOMAIN write_db.user_ingredients
             THEN write_db.user_ingredients
             ELSE Put(write_db.user_ingredients, user_id, <<>>)
       IN  IF user_id \notin DOMAIN write_db.users
           THEN Reject(name, a, write_db, <<"User not found">>)
           ELSE IF i.ingredient_name = <<>>
           THEN Reject(name, a, write_db, <<"Ingredient name required">>)
           ELSE Commit(name, a,
                       [write_db EXCEPT !.user_ingredients =
                          Put(user_ingredients, user_id,
                              Put(user_ingredients[user_id], ingredient_id,
                                  [ingredient_id |-> ingredient_id,
                                   name |-> Lower(i.ingredient_name),
                                   amount |-> i.amount,
                                   exp_date |-> i.exp_date]))],
                       Event("INGREDIENT_ADDED",
                             [user_id |-> user_id,
                              ingredient_id |-> ingredient_id,
                              ingredient_name |-> i.ingredient_name,
                              amount |-> i.amount, exp_date |-> i.exp_date]),
                       1,
                       [success |-> TRUE, ingredient_id |-> ingredient_id,
                        message |-> <<"Added ", i.ingredient_name,
                                      " to pantry">>])

HandleRemoveIngredient ==
  /\ Len(event_log) < MaxEvents
  /\ \E user_id \in UserIdArgs, ingredient_id \in IngredientIdArgs :
       LET name == "handle_remove_ingredient"
           a == [user_id |-> user_id, ingredient_id |-> ingredient_id]
       IN  IF user_id \notin DOMAIN write_db.users
           THEN Reject(name, a, write_db, <<"User not found">>)
           ELSE IF \/ user_id \notin DOMAIN write_db.user_ingredients
                   \/ ingredient_id
                        \notin DOMAIN write_db.user_ingredients[user_id]
           THEN Reject(name, a, write_db, <<"Ingredient not found">>)
           ELSE Commit(name, a,
                       [write_db EXCEPT !.user_ingredients[user_id] =
                          Del(@, ingredient_id)],
                       Event("INGREDIENT_REMOVED",
                             [user_id |-> user_id,
                              ingredient_id |-> ingredient_id]),
                       0,
                       [success |-> TRUE,
                        message |-> <<"Ingredient removed from pantry">>])

\* the handler without its test for a recipe that is a favorite already
FavoriteRecipeAgain(max_events) ==
  /\ Len(event_log) < max_events
  /\ \E user_id \in UserIdArgs, recipe_id \in RecipeIdArgs :
       LET name == "handle_favorite_recipe"
           recipe_name == "Omelette"
           a == [user_id |-> user_id, recipe_id |-> recipe_id,
                 recipe_name |-> recipe_name]
           favorites == IF user_id \in DOMAIN write_db.favorites
                        THEN write_db.favorites
                        ELSE Put(write_db.favorites, user_id, {})
       IN  IF user_id \notin DOMAIN write_db.users
           THEN Reject(name, a, write_db, <<"User not found">>)
           ELSE Commit(name, a,
                       [write_db EXCEPT !.favorites =
                          Put(favorites, user_id,
                              favorites[user_id] \cup {recipe_id})],
                       Event("RECIPE_FAVORITED",
                             [user_id |-> user_id, recipe_id |-> recipe_id,
                              recipe_name |-> recipe_name]),
                       0,
                       [success |-> TRUE,
                        message |-> <<"Added ", recipe_name,
                                      " to favorites">>])

FavoriteRecipe(max_events) ==
  /\ Len(event_log) < max_events
  /\ \E user_id \in UserIdArgs, recipe_id \in RecipeIdArgs :
       LET name == "handle_favorite_recipe"
           recipe_name == "Omelette"
           a == [user_id |-> user_id, recipe_id |-> recipe_id,
                 recipe_name |-> recipe_name]
           favorites == IF user_id \in DOMAIN write_db.favorites
                        THEN write_db.favorites
                        ELSE Put(write_db.favorites, user_id, {})
       IN  IF user_id \notin DOMAIN write_db.users
           THEN Reject(name, a, write_db, <<"User not found">>)
           ELSE IF recipe_id \in favorites[user_id]
           THEN Reject(name, a, [write_db EXCEPT !.favorites = favorites],
                       <<"Recipe already favorited">>)
           ELSE Commit(name, a,
                       [write_db EXCEPT !.favorites =
                          Put(favorites, user_id,
                              favorites[user_id] \cup {recipe_id})],
                       Event("RECIPE_FAVORITED",
                             [user_id |-> user_id, recipe_id |-> recipe_id,
                              recipe_name |-> recipe_name]),
                       0,
                       [success |-> TRUE,
                        message |-> <<"Added ", recipe_name,
                                      " to favorites">>])

HandleFavoriteRecipe == FavoriteRecipe(MaxEvents)

UnfavoriteRecipe(max_events) ==
  /\ Len(event_log) < max_events
  /\ \E user_id \in UserIdArgs, recipe_id \in RecipeIdArgs :
       LET name == "handle_unfavorite_recipe"
           a == [user_id |-> user_id, recipe_id |-> recipe_id]
       IN  IF user_id \notin DOMAIN write_db.users
           THEN Reject(name, a, write_db, <<"User not found">>)
           ELSE IF \/ user_id \notin DOMAIN write_db.favorites
                   \/ recipe_id \notin write_db.favorites[user_id]
           THEN Reject(name, a, write_db, <<"Recipe not in favorites">>)
           ELSE Commit(name, a,
                       [write_db EXCEPT !.favorites[user_id] = @ \ {recipe_id}],
                       Event("RECIPE_UNFAVORITED",
                             [user_id |-> user_id, recipe_id |-> recipe_id]),
                       0,
                       [success |-> TRUE,
                        message |-> <<"Recipe removed from favorites">>])

HandleUnfavoriteRecipe == UnfavoriteRecipe(MaxEvents)

HandleUpdateAppliances ==
  /\ Len(event_log) < MaxEvents
  /\ \E user_id \in UserIdArgs, appliances \in {<<"oven">>} :
       LET name == "handle_update_appliances"
           a == [user_id |-> user_id, appliances |-> appliances]
       IN  IF user_id \notin DOMAIN write_db.users
           THEN Reject(name, a, write_db, <<"User not found">>)
           ELSE Commit(name, a,
                       [write_db EXCEPT !.appliances =
                          Put(@, user_id, appliances)],
                       Event("USER_APPLIANCES_UPDATED",
                             [user_id |-> user_id, appliances |-> appliances]),
                       0,
                       [success |-> TRUE,
                        message |-> <<"Appliances updated successfully">>])

\* handle_log_recipe_search checks nothing; at most max_events events are
\* published in a run
LogRecipeSearch(max_events) ==
  /\ Len(event_log) < max_events
  /\ \E user_id \in UserIdArgs :
       LET a == [user_id |-> user_id, ingredients |-> <<egg>>,
                 filters |-> <<>>, result_count |-> 2]
       IN  Commit("handle_log_recipe_search", a, write_db,
                  Event("RECIPE_SEARCH_PERFORMED", a),
                  0, [success |-> TRUE])

HandleLogRecipeSearch == LogRecipeSearch(MaxEvents)

CreateUserThenFavorites == CreateUser(MaxFavoriteEvents)

FavoriteRepeatedly == FavoriteRecipe(MaxFavoriteEvents)

UnfavoriteRepeatedly == UnfavoriteRecipe(MaxFavoriteEvents)

LogSearchRepeatedly == LogRecipeSearch(MaxSearches)

\* EventBus.subscribe with a callback that raises
SubscribeRaising ==
  /\ \E event_type \in {"USER_CREATED", "INGREDIENT_ADDED"} :
       /\ Cardinality({n \in DOMAIN SubscribersOf(event_type) :
                         SubscribersOf(event_type)[n] = "raising_callback"})
            < MaxRaising
       /\ subscribers' = Put(subscribers, event_type,
                             Append(SubscribersOf(event_type),
                                    "raising_callback"))
       /\ args' = <<event_type, "raising_callback">>
       /\ printed' = <<<<"Subscribed to: ", event_type>>>>
  /\ op' = "subscribe"
  /\ result' = <<>>
  /\ UNCHANGED <<recipes, write_db, read_db, event_log, delivered, seen_db,
                 uuids>>

\* setup_event_consumers: seven subscriptions, each announced, then the banner
SetupEventConsumers ==
  /\ Len(SubscribersOf("USER_CREATED")) < MaxSetups
  /\ op' = "setup_event_consumers"
  /\ args' = <<>>
  /\ result' = <<>>
  /\ subscribers' = Subscribe(subscribers, Len(Subscriptions))
  /\ printed' = [n \in DOMAIN Subscriptions |->
                   <<"Subscribed to: ", Subscriptions[n][1]>>]
                  \o <<<<"">>, <<"=", 70>>, <<"Event Consumers Initialized">>,
                       <<"=", 70>>>>
  /\ UNCHANGED <<recipes, write_db, read_db, event_log, delivered, seen_db,
                 uuids>>

\* the call has returned and its result was consumed
QueryRecipesByIngredients ==
  /\ op = "idle"
  /\ \E ingredient_names \in UserLists, filters \in SearchFilters :
       /\ op' = "query_recipes_by_ingredients"
       /\ args' = [ingredient_names |-> ingredient_names, filters |-> filters]
       /\ result' = query_recipes_by_ingredients(ingredient_names,
                                                 CacheValues(recipes), filters)
  /\ printed' = <<>>
  /\ UNCHANGED recipes
  /\ UNCHANGED cqrs_vars

\* _passes_filters on a cached recipe, with filters a dict
QueryPassesFilters ==
  /\ op = "idle"
  /\ \E i \in DOMAIN recipes, filters \in SearchFilters \ {None} :
       /\ op' = "_passes_filters"
       /\ args' = [recipe |-> recipes[i], filters |-> filters]
       /\ result' = _passes_filters(recipes[i], filters)
  /\ printed' = <<>>
  /\ UNCHANGED recipes
  /\ UNCHANGED cqrs_vars

\* main from the search on: the search, then the suggestions of the branch
\* taken; filters is a dict and show_suggestions the answer typed at the prompt
Main ==
  /\ op = "idle"
  /\ \E user_ing \in UserSets, filters \in SuggestFilters \ {None},
        show_suggestions \in {"y", "n"} :
       LET results == search_recipes(user_ing, recipes, filters)
           shown_recipe_ids == {results[i].id : i \in DOMAIN results}
       IN  /\ op' = "main"
           /\ args' = [user_ingredients |-> user_ing, filters |-> filters,
                       show_suggestions |-> show_suggestions]
           /\ IF results = <<>>
              THEN /\ result' =
                        [results |-> results, has_matches |-> <<FALSE>>,
                         suggestions |->
                           generate_shopping_suggestions(user_ing, recipes,
                                                         filters, 5, FALSE,
                                                         <<shown_recipe_ids>>)]
                   /\ printed' = SuggestionOutput(FALSE)
              ELSE IF results[1].match_percentage < 1000
                      /\ show_suggestions = "y"
              THEN /\ result' =
                        [results |-> results, has_matches |-> <<TRUE>>,
                         suggestions |->
                           generate_shopping_suggestions(user_ing, recipes,
                                                         filters, 5, TRUE,
                                                         <<shown_recipe_ids>>)]
                   /\ printed' = SuggestionOutput(TRUE)
              ELSE /\ result' = [results |-> results, has_matches |-> <<>>,
                                 suggestions |-> <<>>]
                   /\ printed' = <<>>
  /\ UNCHANGED recipes
  /\ UNCHANGED cqrs_vars

Return ==
  /\ op # "idle"
  /\ op' = "idle"
  /\ args' = <<>>
  /\ result' = <<>>
  /\ printed' = <<>>
  /\ UNCHANGED recipes
  /\ UNCHANGED cqrs_vars

Next ==
  \/ SearchRecipes
  \/ FindPartialMatches
  \/ Return

Spec == Init /\ [][Next]_vars

NextSuggest ==
  \/ GenerateShoppingSuggestions
  \/ Return

SpecSuggest == InitSuggest /\ [][NextSuggest]_vars

NextMalformed ==
  \/ SearchRecipes
  \/ FindPartialMatches
  \/ GenerateShoppingSuggestions
  \/ Return

SpecMalformed == InitMalformed /\ [][NextMalformed]_vars

NextAdvisors ==
  \/ CheckRecipeCompatibility
  \/ GetSubstitutionsForIngredient
  \/ Return

SpecAdvisors == InitPure /\ [][NextAdvisors]_vars

NextCQRS ==
  \/ SetupEventConsumers
  \/ HandleCreateUser
  \/ HandleUpdateUserProfile
  \/ HandleAddIngredient
  \/ HandleRemoveIngredient
  \/ HandleFavoriteRecipe
  \/ HandleUnfavoriteRecipe
  \/ HandleUpdateAppliances
  \/ HandleLogRecipeSearch

SpecCQRS == InitPure /\ [][NextCQRS]_vars

\* sessions of favoriting and unfavoriting
NextFavorites ==
  \/ SetupEventConsumers
  \/ CreateUserThenFavorites
  \/ FavoriteRepeatedly
  \/ UnfavoriteRepeatedly

SpecFavorites == InitPure /\ [][NextFavorites]_vars

\* commands published on a bus that has a raising subscriber
NextBus ==
  \/ SetupEventConsumers
  \/ SubscribeRaising
  \/ HandleCreateUser
  \/ HandleAddIngredient

SpecBus == InitPure /\ [][NextBus]_vars

\* sessions of searches being logged
NextSearches ==
  \/ SetupEventConsumers
  \/ LogSearchRepeatedly

SpecSearches == InitPure /\ [][NextSearches]_vars

NextMain ==
  \/ Main
  \/ Return

SpecMain == InitSuggest /\ [][NextMain]_vars

NextQueries ==
  \/ QueryRecipesByIngredients
  \/ QueryPassesFilters
  \/ Return

SpecQueries == Init /\ [][NextQueries]_vars

NextPure ==
  \/ CalculateMatch
  \/ PassesFilters
  \/ Return

SpecPure == InitPure /\ [][NextPure]_vars

(* Claims about calculate_match, under SpecPure *)

\* C1: matched and missing together hold every recipe ingredient once per
\* occurrence: len(matched) + len(missing) = len(recipe_ingredients), with
\* repeated and mixed-case names not collapsed.
C1_MatchCount ==
  op = "calculate_match" =>
    Len(result.matched) + Len(result.missing) = Len(args.recipe_ingredients)

\* a list naming the same ingredient twice, in two casings, both matched
C1_Witness ==
  /\ op = "calculate_match"
  /\ args.recipe_ingredients = <<egg, EgG, oil>>
  /\ args.user_ingredients = {egg}
  /\ result.matched = <<egg, egg>>
  /\ result.missing = <<oil>>

\* C2: 0 <= percentage <= 100, and percentage = 0 exactly when matched is empty
\* or the recipe has no ingredients, however long the ingredient list.
C2_PercentageZeroIff ==
  op = "calculate_match" =>
    /\ 0 <= result.percentage
    /\ result.percentage <= 1000
    /\ (result.percentage = 0) <=>
         (result.matched = <<>> \/ Len(args.recipe_ingredients) = 0)

\* C3: calculate_match is the reference operator: matched and missing are the
\* two complementary subsequences, in recipe order, of the lower-cased recipe
\* ingredients by membership in user_ingredients, and percentage is
\* len(matched) / total * 100 rounded to one decimal (0 when total = 0); the
\* scenario of the specification gives 50.0.
C3_Reference ==
  op = "calculate_match" =>
    LET lowered == [i \in DOMAIN args.recipe_ingredients |->
                      Lower(args.recipe_ingredients[i])]
        owned(x) == x \in args.user_ingredients
        lacking(x) == x \notin args.user_ingredients
        total == Len(lowered)
        m == Len(SelectSeq(lowered, owned))
        p == result.percentage
        diff == IF p * total >= 1000 * m
                THEN p * total - 1000 * m ELSE 1000 * m - p * total
    IN  /\ result.matched = SelectSeq(lowered, owned)
        /\ result.missing = SelectSeq(lowered, lacking)
        /\ total = 0 => p = 0
        /\ total > 0 => /\ 2 * diff <= total
                        /\ 2 * diff = total => p % 2 = 0
        /\ (/\ args.recipe_ingredients = ScenarioIngredients
            /\ args.user_ingredients = {chicken, rice})
             => result = [percentage |-> 500,
                          matched |-> <<chicken, rice>>,
                          missing |-> <<soy_sauce, garlic>>]

\* two of three matched: 66.7 after rounding up
C3_Witness ==
  /\ op = "calculate_match"
  /\ args.recipe_ingredients = <<egg, oil, padded_egg>>
  /\ args.user_ingredients = {egg, oil}
  /\ result.percentage = 667
  /\ result.missing = <<padded_egg>>

\* C4: a recipe ingredient that equals a lower-case, trimmed user ingredient
\* up to letter case and leading or trailing whitespace is classified as
\* matched.
C4_NormalisedMatch ==
  op = "calculate_match" =>
    \A i \in DOMAIN args.recipe_ingredients :
      \A u \in args.user_ingredients :
        (u = Strip(Lower(u)) /\ Strip(Lower(args.recipe_ingredients[i])) = u)
          => Lower(args.recipe_ingredients[i]) \notin Range(result.missing)

(* Claims about passes_filters, under SpecPure *)

\* an option counts as given when its key is present with a non-empty value
IsEmptyOption(option, value) ==
  IF option = "max_time" THEN value = 0 ELSE value = <<>>

ActiveOptions(filters) ==
  IF filters = None THEN {}
  ELSE {option \in DOMAIN filters : ~IsEmptyOption(option, filters[option])}

\* C5: passes_filters(recipe, criteria) is the conjunction, over the active
\* options of criteria, of passes_filters(recipe, {that option alone}); with
\* no criteria, empty criteria or only absent or empty options it is true.
C5_AndComposition ==
  op = "passes_filters" =>
    LET active == ActiveOptions(args.filters)
    IN  /\ result = (\A option \in active :
                       passes_filters(args.recipe,
                                      option :> args.filters[option]))
        /\ active = {} => result = TRUE

\* two active options, the first passes and the second fails
C5_Witness ==
  /\ op = "passes_filters"
  /\ args.filters = [max_time |-> 30, cuisine |-> italian]
  /\ Get(args.recipe, "total_time", 999) = 10
  /\ Get(args.recipe, "cuisine", <<>>) = Asian
  /\ result = FALSE

\* C6: whenever max_time is present as an integer, 0 included, a recipe whose
\* total_time exceeds max_time does not pass.
C6_MaxTimeCeiling ==
  (/\ op = "passes_filters"
   /\ "max_time" \in DOMAIN args.filters
   /\ "total_time" \in DOMAIN args.recipe
   /\ args.recipe.total_time > args.filters.max_time)
    => result = FALSE

\* C7: a field missing from the recipe is defaulted: no total_time counts as
\* 999 (a max_time filter passes iff max_time >= 999), no skill_level or
\* cuisine fails every non-empty skill_level or cuisine filter, no
\* dietary_tags fails every non-empty tag requirement.
C7_MissingFieldDefaults ==
  op = "passes_filters" =>
    LET recipe == args.recipe
        filters == args.filters
        given(option) == option \in DOMAIN filters
    IN  /\ (given("max_time") /\ "total_time" \notin DOMAIN recipe)
             => /\ filters.max_time < 999 => result = FALSE
                /\ DOMAIN filters = {"max_time"}
                     => (result <=> filters.max_time >= 999)
        /\ (/\ given("skill_level")
            /\ filters.skill_level # <<>>
            /\ "skill_level" \notin DOMAIN recipe) => result = FALSE
        /\ (/\ given("cuisine")
            /\ filters.cuisine # <<>>
            /\ "cuisine" \notin DOMAIN recipe) => result = FALSE
        /\ (/\ given("dietary_tags")
            /\ filters.dietary_tags # <<>>
            /\ "dietary_tags" \notin DOMAIN recipe) => result = FALSE

\* C8: with a non-empty required tag set, the dietary_tags option passes if and
\* only if every required tag is, up to letter case, among the recipe's tags.
C8_AllTags ==
  (/\ op = "passes_filters"
   /\ "dietary_tags" \in DOMAIN args.filters
   /\ args.filters.dietary_tags # <<>>)
    => LET required == args.filters.dietary_tags
           tags == Get(args.recipe, "dietary_tags", <<>>)
           all_present ==
             \A i \in DOMAIN required :
               \E j \in DOMAIN tags : Lower(tags[j]) = Lower(required[i])
       IN  /\ result => all_present
           /\ DOMAIN args.filters = {"dietary_tags"} => (result <=> all_present)

\* two tags required, the recipe has one of them: ALL fails where ANY passes
C8_Witness ==
  /\ op = "passes_filters"
  /\ args.filters = [dietary_tags |-> <<vegetarian, Vegan>>]
  /\ Get(args.recipe, "dietary_tags", <<>>) = <<vegan>>
  /\ result = FALSE

(* Claims about search_recipes and find_partial_matches, under Spec *)

PercentageOf(recipe) ==
  calculate_match(recipe.ingredients, args.user_ingredients).percentage

\* C9: search_recipes returns exactly one entry for each catalog recipe that
\* passes passes_filters and has percentage > 0, and no other entry; when no
\* catalog recipe shares an ingredient with the user the output is empty.
C9_SearchExact ==
  op = "search_recipes" =>
    LET qualifying ==
          {i \in DOMAIN recipes :
             /\ passes_filters(recipes[i], args.filters)
             /\ PercentageOf(recipes[i]) > 0}
        shares(i) ==
          \E j \in DOMAIN recipes[i].ingredients :
            Lower(recipes[i].ingredients[j]) \in args.user_ingredients
    IN  /\ Len(result) = Cardinality(qualifying)
        /\ \A i \in qualifying :
             Cardinality({k \in DOMAIN result : result[k].id = recipes[i].id}) = 1
        /\ \A k \in DOMAIN result :
             \E i \in qualifying :
               /\ result[k].id = recipes[i].id
               /\ result[k].name = recipes[i].name
               /\ result[k].match_percentage = PercentageOf(recipes[i])
        /\ (\A i \in DOMAIN recipes : ~shares(i)) => result = <<>>

\* one recipe returned, one dropped by the filters although it matches, one
\* dropped for matching nothing although it passes the filters
C9_Witness ==
  /\ op = "search_recipes"
  /\ Len(result) = 1
  /\ \E i \in DOMAIN recipes :
       /\ ~passes_filters(recipes[i], args.filters)
       /\ PercentageOf(recipes[i]) > 0
  /\ \E i \in DOMAIN recipes :
       /\ passes_filters(recipes[i], args.filters)
       /\ PercentageOf(recipes[i]) = 0

\* C10: the outputs of search_recipes and of find_partial_matches are
\* non-increasing in match_percentage.
C10_SortedDescending ==
  op \in {"search_recipes", "find_partial_matches"} =>
    \A k \in 1..(Len(result) - 1) :
      result[k].match_percentage >= result[k + 1].match_percentage

\* the better match stood later in the catalog and was moved to the front
C10_Witness ==
  /\ op = "find_partial_matches"
  /\ Len(result) >= 2
  /\ result[1].match_percentage > result[2].match_percentage
  /\ \E i, j \in DOMAIN recipes :
       /\ j < i
       /\ recipes[i].id = result[1].id
       /\ recipes[j].id = result[2].id

\* C11: find_partial_matches returns exactly the catalog recipes whose id is
\* not in exclude_ids, that pass passes_filters, and whose percentage p has
\* min_threshold <= p < 100 (threshold inclusive, perfect matches left out);
\* no recipe with an excluded id ever appears in the output.
C11_PartialExact ==
  op = "find_partial_matches" =>
    LET excluded == ExcludeIds(args.exclude_ids)
        qualifying ==
          {i \in DOMAIN recipes :
             /\ recipes[i].id \notin excluded
             /\ passes_filters(recipes[i], args.filters)
             /\ 10 * args.min_match_threshold <= PercentageOf(recipes[i])
             /\ PercentageOf(recipes[i]) < 1000}
    IN  /\ Len(result) = Cardinality(qualifying)
        /\ \A i \in qualifying :
             Cardinality({k \in DOMAIN result : result[k].id = recipes[i].id}) = 1
        /\ \A k \in DOMAIN result :
             /\ result[k].id \notin excluded
             /\ \E i \in qualifying :
                  /\ result[k].id = recipes[i].id
                  /\ result[k].name = recipes[i].name
                  /\ result[k].match_percentage = PercentageOf(recipes[i])

\* threshold 50: a recipe at exactly 50.0 is returned, a perfect match is left
\* out, and a recipe in range is left out because its id is excluded
C11_Witness ==
  /\ op = "find_partial_matches"
  /\ args.min_match_threshold = 50
  /\ args.filters = None
  /\ \E k \in DOMAIN result : result[k].match_percentage = 500
  /\ \E i \in DOMAIN recipes : PercentageOf(recipes[i]) = 1000
  /\ \E i \in DOMAIN recipes :
       /\ recipes[i].id \in ExcludeIds(args.exclude_ids)
       /\ PercentageOf(recipes[i]) >= 500
       /\ PercentageOf(recipes[i]) < 1000

(* Claims about generate_shopping_suggestions, under SpecSuggest *)

\* the catalog positions find_partial_matches keeps at a threshold
InRange(min_match_threshold) ==
  {i \in DOMAIN recipes :
     /\ recipes[i].id \notin ExcludeIds(args.exclude_ids)
     /\ passes_filters(recipes[i], args.filters)
     /\ 10 * min_match_threshold <= PercentageOf(recipes[i])
     /\ PercentageOf(recipes[i]) < 1000}

\* the candidate list of the call in args
CandidatesOfCall ==
  Candidates(args.user_ingredients, recipes, args.filters, args.has_matches,
             ExcludeIds(args.exclude_ids))

\* the recipe names listed anywhere in the returned suggestions
ListedNames ==
  UNION {Range(result[k].recipe_names) : k \in DOMAIN result}

\* C12: with has_matches true and top_n >= 1 the candidates are the
\* threshold-50 result when that is non-empty and the threshold-25 result
\* otherwise; if threshold 50 yields nothing and threshold 25 yields a recipe,
\* the returned list is non-empty and every recipe name it lists belongs to
\* the threshold-25 set.
C12_ThresholdFallback ==
  (/\ op = "generate_shopping_suggestions"
   /\ args.has_matches
   /\ args.top_n >= 1)
    => LET chosen == IF InRange(50) # {} THEN InRange(50) ELSE InRange(25)
       IN  /\ Len(CandidatesOfCall) = Cardinality(chosen)
           /\ {CandidatesOfCall[k].id : k \in DOMAIN CandidatesOfCall}
                = {recipes[i].id : i \in chosen}
           /\ ListedNames \subseteq {recipes[i].name : i \in chosen}
           /\ (InRange(50) = {} /\ InRange(25) # {})
                => /\ result # <<>>
                   /\ ListedNames \subseteq {recipes[i].name : i \in InRange(25)}

\* nothing at 50 or more, one recipe at 25.0: its missing ingredients are
\* suggested
C12_Witness ==
  /\ op = "generate_shopping_suggestions"
  /\ args.has_matches
  /\ args.top_n >= 1
  /\ InRange(50) = {}
  /\ \E i \in InRange(25) : PercentageOf(recipes[i]) = 250
  /\ result # <<>>

\* the catalog positions that pass the filters and are not excluded
Admitted ==
  {i \in DOMAIN recipes :
     /\ recipes[i].id \notin ExcludeIds(args.exclude_ids)
     /\ passes_filters(recipes[i], args.filters)}

\* C13: with has_matches false the candidates are every catalog recipe that
\* passes the filters and whose id is not in exclude_ids, whatever its
\* percentage (0% and 100% included), and no other recipe; when the list is
\* not cut by top_n it names every such recipe that misses an ingredient.
C13_AllFilteredCandidates ==
  (/\ op = "generate_shopping_suggestions"
   /\ ~args.has_matches)
    => /\ Len(CandidatesOfCall) = Cardinality(Admitted)
       /\ {CandidatesOfCall[k].id : k \in DOMAIN CandidatesOfCall}
            = {recipes[i].id : i \in Admitted}
       /\ ListedNames \subseteq {recipes[i].name : i \in Admitted}
       /\ Len(result) < args.top_n
            => ListedNames = {recipes[i].name :
                                i \in {j \in Admitted :
                                         PercentageOf(recipes[j]) < 1000}}

\* a candidate at 0%, a candidate at 100%, and a recipe kept out by the filters
C13_Witness ==
  /\ op = "generate_shopping_suggestions"
  /\ ~args.has_matches
  /\ \E i \in Admitted : PercentageOf(recipes[i]) = 0
  /\ \E i \in Admitted : PercentageOf(recipes[i]) = 1000
  /\ \E i \in DOMAIN recipes : ~passes_filters(recipes[i], args.filters)
  /\ result # <<>>

\* C14: for every returned suggestion, unlock_count is the number of candidate
\* recipes whose missing list contains that ingredient, and recipe_names
\* lists each such recipe exactly once, also when a recipe's ingredient list
\* names the same ingredient more than once.
C14_UnlockCount ==
  op = "generate_shopping_suggestions" =>
    \A k \in DOMAIN result :
      LET lacking == {c \in DOMAIN CandidatesOfCall :
                        result[k].name
                          \in Range(CandidatesOfCall[c].missing_ingredients)}
          names == result[k].recipe_names
      IN  /\ result[k].unlock_count = Cardinality(lacking)
          /\ Len(names) = Cardinality(lacking)
          /\ Range(names) = {CandidatesOfCall[c].name : c \in lacking}

\* the distinct ingredients missing from some candidate
MissingNames ==
  UNION {Range(CandidatesOfCall[c].missing_ingredients) :
           c \in DOMAIN CandidatesOfCall}

\* how often the candidates' missing lists name an ingredient
Occurrences(missing_ing) ==
  Cardinality(UNION {{<<c, j>> :
                        j \in {i \in DOMAIN CandidatesOfCall[c].missing_ingredients :
                                 CandidatesOfCall[c].missing_ingredients[i]
                                   = missing_ing}} :
                     c \in DOMAIN CandidatesOfCall})

\* C15: the returned list is non-increasing in unlock_count and, for every
\* top_n >= 0, has exactly min(top_n, number of distinct missing ingredients)
\* entries, which are the highest-ranked ones; three recipes missing {egg},
\* {egg, oil} and {oil} rank egg and oil both at unlock_count 2.
C15_RankedAndTruncated ==
  op = "generate_shopping_suggestions" =>
    LET distinct == Cardinality(MissingNames)
        returned == {result[k].name : k \in DOMAIN result}
    IN  /\ \A k \in 1..(Len(result) - 1) :
             result[k].unlock_count >= result[k + 1].unlock_count
        /\ args.top_n >= 0
             => Len(result) = IF args.top_n < distinct
                              THEN args.top_n ELSE distinct
        /\ Cardinality(returned) = Len(result)
        /\ returned \subseteq MissingNames
        /\ \A k \in DOMAIN result :
             \A missing_ing \in MissingNames \ returned :
               Occurrences(missing_ing) <= result[k].unlock_count
        /\ (/\ recipes = ScenarioCatalog
            /\ args.user_ingredients = {chicken, rice}
            /\ args.filters = None
            /\ args.exclude_ids = <<>>
            /\ args.top_n = 5)
             => result = <<[name |-> egg, unlock_count |-> 2,
                            recipe_names |-> <<"Egg Rice", "Stir Fry">>],
                           [name |-> oil, unlock_count |-> 2,
                            recipe_names |-> <<"Stir Fry", "Fried Chicken">>]>>

\* top_n 1 cuts the list, and the ingredient kept was not the first one met:
\* the first candidate misses an ingredient that ranks lower
C15_Witness ==
  /\ op = "generate_shopping_suggestions"
  /\ args.top_n = 1
  /\ Cardinality(MissingNames) >= 2
  /\ Len(result) = 1
  /\ result[1].unlock_count >= 2
  /\ CandidatesOfCall[1].missing_ingredients[1] # result[1].name

(* Claims about error handling, under SpecMalformed *)

\* C16: the core has no error outcome: for every catalog whose entries may
\* lack any subset of the Recipe fields, and every ingredient set and
\* criteria, search_recipes, find_partial_matches and
\* generate_shopping_suggestions complete and return a result; a malformed
\* entry is defaulted, never rejected.
C16_NoErrorOutcome ==
  op \in {"search_recipes", "find_partial_matches",
          "generate_shopping_suggestions"} => result # KeyError

(* Claims about side effects, under SpecMalformed *)

C18_SubstringViolations ==
  op = "check_recipe_compatibility" =>
    LET forbidden(restriction) ==
          IF restriction \in DOMAIN DIETARY_RESTRICTIONS
          THEN Range(DIETARY_RESTRICTIONS[restriction]) ELSE {}
        reported(ingredient, restriction) ==
          \E v \in DOMAIN result.violations :
            /\ result.violations[v].ingredient = Lower(ingredient)
            /\ result.violations[v].restriction = restriction
    IN  /\ \A i \in DOMAIN args.recipe_ingredients :
             \A r \in DOMAIN args.restriction_names :
               reported(args.recipe_ingredients[i], args.restriction_names[r])
                 <=> \E term \in forbidden(args.restriction_names[r]) :
                       IsSubstring(term, Lower(args.recipe_ingredients[i]))
        /\ \A v \in DOMAIN result.violations :
             /\ \E i \in DOMAIN args.recipe_ingredients :
                  Lower(args.recipe_ingredients[i]) = result.violations[v].ingredient
             /\ result.violations[v].restriction \in Range(args.restriction_names)
        /\ result.is_compatible <=> (result.violations = <<>>)
        /\ args.restriction_names = <<>> => result.is_compatible
        /\ (args.recipe_ingredients = <<cheddar_cheese>>
              /\ args.restriction_names = <<vegan>>)
             => result.violations = <<[ingredient |-> cheddar_cheese,
                                       restriction |-> vegan,
                                       matched_forbidden_term |-> cheese]>>

\* a compound name flagged through a forbidden term inside it, next to an
\* ingredient the restriction allows
C18_Witness ==
  /\ op = "check_recipe_compatibility"
  /\ args.recipe_ingredients = <<tofu, cheddar_cheese>>
  /\ args.restriction_names = <<vegan>>
  /\ ~result.is_compatible
  /\ Len(result.violations) = 1
  /\ result.violations[1].matched_forbidden_term = cheese

\* C19: get_substitutions_for_ingredient looks the name up without regard to
\* letter case ('MILK', 'Milk' and 'milk' give the same result for the same
\* restrictions) and returns the empty sequence for an ingredient that is not
\* in the substitution table.
C19_CaseInsensitiveLookup ==
  op = "get_substitutions_for_ingredient" =>
    /\ \A other \in SubstitutedNames :
         Lower(other) = Lower(args.name)
           => result = get_substitutions_for_ingredient(other,
                                                        args.active_restrictions)
    /\ (\A base \in DOMAIN SUBSTITUTIONS : Lower(base) # Lower(args.name))
         => result = <<>>
    /\ (args.name \in {MILK, Milk, milk} /\ args.active_restrictions = <<vegan>>)
         => [k \in DOMAIN result |-> result[k].name]
              = <<oat_milk, soy_milk>>

\* the upper-case name finds the substitutes of milk
C19_Witness ==
  /\ op = "get_substitutions_for_ingredient"
  /\ args.name = MILK
  /\ args.active_restrictions = <<vegan>>
  /\ Len(result) = 2


(* Claims about the command handlers and the event consumers, under SpecCQRS *)

ConsumerTypes == {Subscriptions[n][1] : n \in DOMAIN Subscriptions}

\* setup_event_consumers ran once, and before the first command published
SetUpOnce ==
  /\ \A event_type \in ConsumerTypes : Len(SubscribersOf(event_type)) = 1
  /\ \A i \in DOMAIN event_log :
       event_log[i].event_type \in ConsumerTypes => Len(delivered[i]) = 1

\* every recipe id a command published was a string
StringRecipeIds ==
  \A i \in DOMAIN event_log :
    event_log[i].event_type \in {"RECIPE_FAVORITED", "RECIPE_UNFAVORITED"}
      => "str" \in DOMAIN event_log[i].data.recipe_id

SameProfile(user_id) ==
  /\ user_id \in DOMAIN read_db.user_profiles
  /\ \A field \in {"username", "dietary_restrictions", "skill_level"} :
       read_db.user_profiles[user_id][field] = write_db.users[user_id][field]

SamePantry(user_id) ==
  LET user_ingredients == Get(write_db.user_ingredients, user_id, <<>>)
      pantry == Get(read_db.user_pantries, user_id, <<>>)
  IN  /\ DOMAIN pantry = DOMAIN user_ingredients
      /\ \A ingredient_id \in DOMAIN user_ingredients :
           \A field \in {"name", "amount", "exp_date"} :
             pantry[ingredient_id][field] = user_ingredients[ingredient_id][field]

SameFavorites(user_id) ==
  Get(read_db.user_favorites, user_id, {}) = Get(write_db.favorites, user_id, {})

ReadModelAgrees ==
  \A user_id \in DOMAIN write_db.users :
    SameProfile(user_id) /\ SamePantry(user_id) /\ SameFavorites(user_id)

\* C20: when the consumers were set up once before the first command and every
\* recipe id was a string, then after each command returns the read model
\* agrees with the write model: every user has a read profile with the same
\* username, dietary_restrictions and skill_level, a read pantry with the same
\* ingredient ids, names, amounts and exp_dates, and the same favorites set.
C20_ReadModelAgrees == (SetUpOnce /\ StringRecipeIds) => ReadModelAgrees

\* a user was created, an ingredient typed in mixed case was added and a
\* recipe was favorited by its string id, all after one setup
C20_Witness ==
  /\ SetUpOnce
  /\ StringRecipeIds
  /\ \E user_id \in DOMAIN write_db.users :
       /\ \E ingredient_id \in DOMAIN Get(write_db.user_ingredients, user_id, <<>>) :
            /\ write_db.user_ingredients[user_id][ingredient_id].name = egg
            /\ \E i \in DOMAIN event_log :
                 /\ event_log[i].event_type = "INGREDIENT_ADDED"
                 /\ event_log[i].data.ingredient_name = EgG
       /\ Get(write_db.favorites, user_id, {}) = {[str |-> "1"]}


Commands ==
  {"handle_create_user", "handle_update_user_profile", "handle_add_ingredient",
   "handle_remove_ingredient", "handle_favorite_recipe",
   "handle_unfavorite_recipe", "handle_update_appliances",
   "handle_log_recipe_search"}

\* C21: a command call that returns success = False leaves the write
\* database, the event log and the read model as they were before the call.
C21_FailureHasNoEffect ==
  [][(op' \in Commands /\ ~result'.success)
       => UNCHANGED <<write_db, event_log, read_db>>]_vars

\* a favorite call was refused because the recipe was a favorite already
C21_Witness ==
  /\ op = "handle_favorite_recipe"
  /\ ~result.success
  /\ result.message = <<"Recipe already favorited">>
  /\ \E user_id \in DOMAIN write_db.users :
       args.recipe_id \in Get(write_db.favorites, user_id, {})


(* Claims about favoriting, under SpecFavorites *)

IsFavoriteEvent(event, user_id, recipe_id) ==
  /\ event.event_type \in {"RECIPE_FAVORITED", "RECIPE_UNFAVORITED"}
  /\ event.data.user_id = user_id
  /\ event.data.recipe_id = recipe_id

\* the favorite and unfavorite events of one user and recipe, in publish order
FavoriteHistory(user_id, recipe_id) ==
  SelectSeq(event_log, LAMBDA event : IsFavoriteEvent(event, user_id, recipe_id))

Alternates(history) ==
  \A i \in DOMAIN history :
    history[i].event_type = IF i % 2 = 1 THEN "RECIPE_FAVORITED"
                            ELSE "RECIPE_UNFAVORITED"

FavoritedNow(user_id, recipe_id) ==
  recipe_id \in Get(write_db.favorites, user_id, {})

\* C22: for an existing user, handle_favorite_recipe succeeds exactly when the
\* recipe is not in the user's favorites and handle_unfavorite_recipe exactly
\* when it is; and the successful favorite and unfavorite calls of one user and
\* recipe alternate in the event log, the first being a favorite.
C22_FavoriteAlternates ==
  /\ [][/\ (op' = "handle_favorite_recipe"
              /\ args'.user_id \in DOMAIN write_db.users)
             => (result'.success
                   <=> ~FavoritedNow(args'.user_id, args'.recipe_id))
        /\ (op' = "handle_unfavorite_recipe"
              /\ args'.user_id \in DOMAIN write_db.users)
             => (result'.success
                   <=> FavoritedNow(args'.user_id, args'.recipe_id))]_vars
  /\ [](\A user_id \in DOMAIN write_db.users, recipe_id \in RecipeIdArgs :
          Alternates(FavoriteHistory(user_id, recipe_id)))

\* one user favorited, unfavorited, favorited and unfavorited one recipe
C22_Witness ==
  \E user_id \in DOMAIN write_db.users, recipe_id \in RecipeIdArgs :
    /\ Len(FavoriteHistory(user_id, recipe_id)) = 4
    /\ ~FavoritedNow(user_id, recipe_id)


(* Claims about publishing *)

EventTypeOf(command) ==
  CASE command = "handle_create_user" -> "USER_CREATED"
    [] command = "handle_update_user_profile" -> "USER_PROFILE_UPDATED"
    [] command = "handle_add_ingredient" -> "INGREDIENT_ADDED"
    [] command = "handle_remove_ingredient" -> "INGREDIENT_REMOVED"
    [] command = "handle_favorite_recipe" -> "RECIPE_FAVORITED"
    [] command = "handle_unfavorite_recipe" -> "RECIPE_UNFAVORITED"
    [] command = "handle_update_appliances" -> "USER_APPLIANCES_UPDATED"
    [] command = "handle_log_recipe_search" -> "RECIPE_SEARCH_PERFORMED"

Succeeded(command, returned) ==
  command \in Commands /\ "success" \in DOMAIN returned /\ returned.success

\* C23: a command call that returns success = True appends exactly one event
\* to the event log, of the type belonging to the command, and publish was
\* called with the write database already as the command leaves it; no other
\* step changes the event log, which so lists the successful commands in order.
C23_OneEventAfterWrite ==
  [][IF Succeeded(op', result')
     THEN /\ Len(event_log') = Len(event_log) + 1
          /\ SubSeq(event_log', 1, Len(event_log)) = event_log
          /\ event_log'[Len(event_log')].event_type = EventTypeOf(op')
          /\ seen_db'[Len(event_log')] = write_db'
     ELSE event_log' = event_log]_vars

\* an ingredient was added: the log ends with INGREDIENT_ADDED, and publish saw
\* the ingredient in the write database
C23_Witness ==
  /\ Succeeded(op, result)
  /\ op = "handle_add_ingredient"
  /\ event_log[Len(event_log)].event_type = "INGREDIENT_ADDED"
  /\ result.ingredient_id
       \in DOMAIN seen_db[Len(seen_db)].user_ingredients[args.user_id]


\* the step published an event to subscribers one of which raises
PublishedToRaising ==
  /\ op' \in Commands
  /\ Len(event_log') = Len(event_log) + 1
  /\ \E n \in DOMAIN SubscribersOf(EventTypeOf(op')) :
       SubscribersOf(EventTypeOf(op'))[n] = "raising_callback"

\* C25: when a subscriber raises during publish, the event is in the event
\* log, every callback subscribed to the event type was invoked, in
\* subscription order, the consumers among them updated the read model, and
\* the command returned success = True.
C25_SubscriberErrorContained ==
  [][PublishedToRaising
       => /\ event_log'[Len(event_log')].event_type = EventTypeOf(op')
          /\ delivered'[Len(event_log')] = SubscribersOf(EventTypeOf(op'))
          /\ Succeeded(op', result')
          /\ \A n \in DOMAIN SubscribersOf(EventTypeOf(op')) :
               /\ SubscribersOf(EventTypeOf(op'))[n] = "on_user_created"
                    => result'.user_id \in DOMAIN read_db'.user_profiles
               /\ SubscribersOf(EventTypeOf(op'))[n] = "on_ingredient_added"
                    => result'.ingredient_id
                         \in DOMAIN read_db'.user_pantries[args'.user_id]]_vars

\* an ingredient was added while a raising callback was subscribed to
\* INGREDIENT_ADDED ahead of on_ingredient_added: the error was printed, the
\* consumer ran after it and the command succeeded
C25_Witness ==
  /\ Succeeded(op, result)
  /\ op = "handle_add_ingredient"
  /\ delivered[Len(delivered)] = <<"raising_callback", "on_ingredient_added">>
  /\ printed = <<<<"EVENT PUBLISHED: ", "INGREDIENT_ADDED">>,
                 <<"Error in subscriber for ", "INGREDIENT_ADDED">>,
                 <<"Read model updated: Ingredient ", args.ingredient_name,
                   " added to pantry">>>>
  /\ result.ingredient_id \in DOMAIN read_db.user_pantries[args.user_id]


\* the RECIPE_SEARCH_PERFORMED events of a user published since the first setup
SearchesSinceSetup(user_id) ==
  {i \in DOMAIN event_log :
     /\ event_log[i].event_type = "RECIPE_SEARCH_PERFORMED"
     /\ event_log[i].data.user_id = user_id
     /\ delivered[i] # <<>>}

SearchCount(user_id) ==
  IF user_id \in DOMAIN read_db.user_analytics
  THEN read_db.user_analytics[user_id].search_count
  ELSE 0

\* C24: every published event is applied to the read model at most once: after
\* any sequence of setups and commands each user's search_count is the number
\* of RECIPE_SEARCH_PERFORMED events published for the user since the first
\* setup, and every callback invoked for an event was subscribed to its type.
C24_AppliedAtMostOnce ==
  /\ \A user_id \in UserIdArgs :
       SearchCount(user_id) = Cardinality(SearchesSinceSetup(user_id))
  /\ \A i \in DOMAIN event_log :
       \A n \in DOMAIN delivered[i] :
         \E s \in DOMAIN Subscriptions :
           Subscriptions[s] = <<event_log[i].event_type, delivered[i][n]>>


(* Claims about the search analytics, under SpecSearches *)

\* the searches logged for a user, as recent_searches entries in publish order
SearchesOf(user_id) ==
  LET logged == SelectSeq(event_log,
                          LAMBDA event :
                            /\ event.event_type = "RECIPE_SEARCH_PERFORMED"
                            /\ event.data.user_id = user_id)
  IN  [i \in DOMAIN logged |->
         [timestamp |-> logged[i].timestamp,
          ingredients |-> logged[i].data.ingredients,
          result_count |-> logged[i].data.result_count]]

RecentSearches(user_id) ==
  IF user_id \in DOMAIN read_db.user_analytics
  THEN read_db.user_analytics[user_id].recent_searches
  ELSE <<>>

LastOf(searches, n) == SubSeq(searches, Len(searches) - n + 1, Len(searches))

Min(a, b) == IF a < b THEN a ELSE b

\* C26: recent_searches never holds more than 10 entries, and with the
\* consumers set up once before the first search it holds, after n searches of
\* a user, the min(n, 10) most recent of them in publish order.
C26_RecentSearchesCapped ==
  \A user_id \in UserIdArgs :
    /\ Len(RecentSearches(user_id)) <= 10
    /\ SetUpOnce
         => RecentSearches(user_id)
              = LastOf(SearchesOf(user_id), Min(Len(SearchesOf(user_id)), 10))

\* eleven searches after one setup: the first one has been dropped
C26_Witness ==
  /\ SetUpOnce
  /\ \E user_id \in UserIdArgs :
       /\ Len(SearchesOf(user_id)) = 11
       /\ Len(RecentSearches(user_id)) = 10
       /\ RecentSearches(user_id)[1].timestamp = 2
       /\ RecentSearches(user_id)[10].timestamp = 11


(* Claims about main, under SpecMain *)

\* some recipe passes the filters and scores at least 25% and below 100%
PartialExists(user_ingredients, filters) ==
  \E i \in DOMAIN recipes :
    /\ passes_filters(recipes[i], filters)
    /\ calculate_match(recipes[i].ingredients, user_ingredients).percentage >= 250
    /\ calculate_match(recipes[i].ingredients, user_ingredients).percentage < 1000

\* C27: when main asks for suggestions with has_matches = True, excluding the
\* recipes its search returned, the suggestion list is not empty if some recipe
\* passing the filters scores at least 25% and below 100%.
C27_SuggestionsSurfaced ==
  (op = "main" /\ result.has_matches = <<TRUE>>
     /\ PartialExists(args.user_ingredients, args.filters))
    => result.suggestions # <<>>


(* Claims about the query side's copy of the search, under SpecQueries *)

\* every name is lower-cased and trimmed already
Normalized(ingredient_names) ==
  \A i \in DOMAIN ingredient_names :
    Strip(Lower(ingredient_names[i])) = ingredient_names[i]

\* C28: for lower-cased, trimmed ingredient names query_recipes_by_ingredients
\* over the cached catalog returns the list search_recipes returns for the
\* same names, catalog and criteria, and _passes_filters returns what
\* passes_filters returns, also for criteria with an empty or zero option.
C28_CopiesAgree ==
  /\ (op = "query_recipes_by_ingredients" /\ Normalized(args.ingredient_names))
       => result = search_recipes(Range(args.ingredient_names), recipes,
                                  args.filters)
  /\ op = "_passes_filters"
       => result = passes_filters(args.recipe, args.filters)


(* More claims about generate_shopping_suggestions, under SpecSuggest *)

Lowercased(user_ingredients) ==
  \A ing \in user_ingredients : Lower(ing) = ing

\* C29: for lower-cased user ingredients and under both strategies no
\* suggestion names an ingredient the user owns, and every suggestion has an
\* unlock_count of at least 1 that is the length of its recipe_names.
C29_NothingOwnedSuggested ==
  (op = "generate_shopping_suggestions" /\ Lowercased(args.user_ingredients))
    => \A i \in DOMAIN result :
         /\ result[i].name \notin args.user_ingredients
         /\ result[i].unlock_count >= 1
         /\ result[i].unlock_count = Len(result[i].recipe_names)

\* a candidate recipe holds an ingredient the user owns next to the ones
\* suggested, under the strategy for users with matches
C29_Witness ==
  /\ op = "generate_shopping_suggestions"
  /\ Lowercased(args.user_ingredients)
  /\ args.has_matches
  /\ result # <<>>
  /\ \E c \in DOMAIN CandidatesOfCall :
       /\ CandidatesOfCall[c].matched_ingredients # <<>>
       /\ Range(CandidatesOfCall[c].matched_ingredients)
            \subseteq args.user_ingredients
       /\ \E i \in DOMAIN result :
            CandidatesOfCall[c].name \in Range(result[i].recipe_names)


(* A further claim about calculate_match, under SpecPure *)

\* the call of the state repeated with the larger set of owned ingredients
MatchWith(more) == calculate_match(args.recipe_ingredients, more)

\* matching is monotone: with more owned, matched keeps what it held, missing
\* only loses entries and the percentage does not fall
Monotone ==
  \A more \in UserSets :
    args.user_ingredients \subseteq more
      => /\ result.matched
              = SelectSeq(MatchWith(more).matched,
                          LAMBDA ing : ing \in args.user_ingredients)
         /\ MatchWith(more).missing
              = SelectSeq(result.missing, LAMBDA ing : ing \notin more)
         /\ MatchWith(more).percentage >= result.percentage

\* the call repeated after every missing ingredient was added to the owned ones
Completed == MatchWith(args.user_ingredients \cup Range(result.missing))

\* C30 as stated: matching is monotone in the owned ingredients, and adding
\* every missing ingredient of a recipe gives percentage 100 and an empty
\* missing list, for every recipe.
C30_MonotoneComplete ==
  op = "calculate_match"
    => /\ Monotone
       /\ Completed.percentage = 1000
       /\ Completed.missing = <<>>

\* C30 amended: matching is monotone in the owned ingredients; adding every
\* missing ingredient gives an empty missing list, and percentage 100 for a
\* recipe with at least one ingredient, 0 for a recipe with none.
C30_MonotoneCompleteNonEmpty ==
  op = "calculate_match"
    => /\ Monotone
       /\ Completed.missing = <<>>
       /\ Completed.percentage
            = IF args.recipe_ingredients = <<>> THEN 0 ELSE 1000

\* a recipe matched in part: a larger owned set raises the percentage, and
\* adding the missing ingredients completes it
C30_Witness ==
  /\ op = "calculate_match"
  /\ result.matched # <<>>
  /\ result.missing # <<>>
  /\ \E more \in UserSets :
       /\ args.user_ingredients \subseteq more
       /\ MatchWith(more).percentage > result.percentage
  /\ Completed.percentage = 1000

====
